---- MODULE Spec2Model ----
(***************************************************************************)
(* Huly MCP server (src/src/index.mjs): the connection manager, the        *)
(* withReconnect wrapper, the composite-id resolver, the label manager and *)
(* the relation manager, as a state machine.                               *)
(*                                                                         *)
(* Granularity: JavaScript runs to completion between awaits, so one step  *)
(* of a request is the completion of the store call (or connect) it awaits *)
(* followed by the synchronous code up to the next await.  A store call    *)
(* takes effect atomically at its completion; a failed store call has no   *)
(* effect on the store.                                                    *)
(*                                                                         *)
(* Strings the code parses or searches are sequences of tokens: one-letter *)
(* tokens ("P", "1", "-") and multi-letter atoms that stand for a run of   *)
(* letters ("socket").  The fixed parts of error messages are single       *)
(* tokens.                                                                 *)
(***************************************************************************)
EXTENDS Integers, Sequences, FiniteSets, TLC

VARIABLES
  config,            \* HULY_EMAIL, HULY_PASSWORD and HULY_WORKSPACE are all set
  cachedClient,      \* 0 = null, else the handle (named by the attempt that made it)
  connectionPromise, \* 0 = null, else the attempt whose promise is recorded
  attempts,          \* the promises createConnection() has returned, in order
  req,               \* per request slot: the tool call being served
  projects,          \* store: tracker.class.Project documents
  issues,            \* store: tracker.class.Issue documents, by internal id
  tagElements,       \* store: tags.class.TagElement documents, by internal id
  tagRefs,           \* store: tags.class.TagReference documents
  nextRef,           \* store: the next TagReference id
  statuses,          \* store: tracker.class.IssueStatus documents
  faults,            \* how many more failures the environment may inject
  calls,             \* how many tool calls were delivered
  snap,              \* history: the store when the latest sequential call was delivered
  last               \* history: the previous completed sequential call

conn  == <<cachedClient, connectionPromise, attempts>>
store == <<projects, issues, tagElements, tagRefs, nextRef, statuses>>
vars  == <<config, cachedClient, connectionPromise, attempts, req, projects, issues,
           tagElements, tagRefs, nextRef, statuses, faults, calls, snap, last>>

(* ------------------------------ bounds -------------------------------- *)
NReq == 2
MaxCalls == 3
MaxResolveCalls == 1
MaxListCalls == 2
MaxAttempts == 3
MaxFaults == 2
MaxIssues == 4
MaxTags == 3
MaxRefs == 3

Reqs == 1..NReq

(* ------------------------------ strings ------------------------------- *)
Letters == {"P", "p", "Q", "socket", "SOCKET"}
Digits  == {"0", "1", "2", "3", "9"}

\* [A-Z0-9] under the /i flag
IsAlnum(c) == c \in Letters \cup Digits
\* \d
IsDigit(c) == c \in Digits

toUpperCaseChar(c) ==
  CASE c = "p" -> "P"
    [] c = "socket" -> "SOCKET"
    [] OTHER -> c

toUpperCase(s) == [i \in 1..Len(s) |-> toUpperCaseChar(s[i])]

DigitVal(c) ==
  CASE c = "0" -> 0 [] c = "1" -> 1 [] c = "2" -> 2 [] c = "3" -> 3 [] OTHER -> 9

RECURSIVE parseInt(_)
parseInt(ds) ==
  IF ds = <<>> THEN 0
  ELSE 10 * parseInt(SubSeq(ds, 1, Len(ds) - 1)) + DigitVal(ds[Len(ds)])

\* the same pattern without its end anchor
DashSplitsUnanchored(s) ==
  {i \in 1..Len(s) :
     /\ s[i] = "-"
     /\ i > 1 /\ i < Len(s)
     /\ \A j \in 1..(i - 1) : IsAlnum(s[j])
     /\ IsDigit(s[i + 1])}

\* the positions at which /^([A-Z0-9]+)-(\d+)$/i can split s
DashSplits(s) ==
  {i \in 1..Len(s) :
     /\ s[i] = "-"
     /\ i > 1 /\ i < Len(s)
     /\ \A j \in 1..(i - 1) : IsAlnum(s[j])
     /\ \A j \in (i + 1)..Len(s) : IsDigit(s[j])}

\* issueId.match(/^([A-Z0-9]+)-(\d+)$/i) is not null
IdMatch(s) == DashSplits(s) # {}
\* match[1] and match[2]
IdKey(s) == SubSeq(s, 1, (CHOOSE i \in DashSplits(s) : TRUE) - 1)
IdNum(s) == SubSeq(s, (CHOOSE i \in DashSplits(s) : TRUE) + 1, Len(s))

\* String.prototype.includes
includes(s, pat) ==
  \E i \in 0..(Len(s) - Len(pat)) : SubSeq(s, i + 1, i + Len(pat)) = pat

(* ------------------------------ outcomes ------------------------------ *)
\* what one execution of the operation ends with: a value or a thrown Error
Ok(v)      == [ok |-> TRUE,  msg |-> <<>>, code |-> "", val |-> v]
ErrSilent(m, c) == [ok |-> FALSE, msg |-> <<>>, code |-> c, val |-> <<>>]
Err(m, c)  == [ok |-> FALSE, msg |-> m,    code |-> c,  val |-> <<>>]

ConfigError == Err(<<"Missing required environment variables: HULY_EMAIL, HULY_PASSWORD, HULY_WORKSPACE">>, "")
InvalidFormatLong(id)  == Err(<<"Invalid issue ID format: ">> \o id \o <<". Expected format: PROJECT-NUMBER">>, "")
InvalidFormatShort(id) == Err(<<"Invalid issue ID format: ">> \o id, "")
ProjectNotFound(key)   == Err(<<"Project not found: ">> \o key, "")
IssueNotFound(id)      == Err(<<"Issue not found: ">> \o id, "")
UnknownTool(name)      == Err(<<"Unknown tool: ", name>>, "")

\* failures of the environment: the transport and the remote store
ErrRefused   == Err(<<"connect ", "ECONNREFUSED", " 127.0.0.1:8087">>, "ECONNREFUSED")
ErrLogin     == Err(<<"Login failed">>, "")
ErrReset     == Err(<<"read ECONNRESET">>, "ECONNRESET")
ErrForbidden == Err(<<"Forbidden">>, "")
ConnectFaults == {ErrRefused, ErrLogin}
StoreFaults   == {ErrReset, ErrForbidden}

\* the condition of withReconnect's catch block
IsConnectionErrorNoCode(e) ==
  \/ includes(e.msg, <<"ConnectionClosed">>)
  \/ includes(e.msg, <<"connection">>)
  \/ includes(e.msg, <<"ECONNREFUSED">>)
  \/ includes(e.msg, <<"socket">>)
IsConnectionError(e) ==
  \/ includes(e.msg, <<"ConnectionClosed">>)
  \/ includes(e.msg, <<"connection">>)
  \/ includes(e.msg, <<"ECONNREFUSED">>)
  \/ includes(e.msg, <<"socket">>)
  \/ e.code = "ECONNRESET"

IsInvalidFormat(o) == ~o.ok /\ o.msg # <<>> /\ o.msg[1] = "Invalid issue ID format: "
IsNotFound(o) == ~o.ok /\ o.msg # <<>> /\ o.msg[1] \in {"Project not found: ", "Issue not found: "}

(* ------------------------------ requests ------------------------------ *)
ToolNames == {"list_projects", "get_project", "list_issues", "get_issue", "create_issue",
              "update_issue", "add_label", "remove_label", "list_labels", "create_label",
              "add_relation", "add_blocked_by", "set_parent"}

\* optional arguments are <<>> (undefined) or <<value>>
NoArgs == [issueId |-> <<>>, otherId |-> <<>>, label |-> "", labels |-> <<>>,
           project |-> <<>>, title |-> <<>>, description |-> <<>>, priority |-> <<>>,
           status |-> <<>>, color |-> <<>>, limit |-> <<>>]

NoIssue == [id |-> 0]
NoTag   == [id |-> 0]
NoLocals == [project |-> "", issue |-> NoIssue, project2 |-> "", issue2 |-> NoIssue,
             tag |-> NoTag, target |-> 0, labelName |-> "", n |-> 0, nextNumber |-> 0,
             statusId |-> "", statusName |-> "", labels |-> <<>>,
             updates |-> <<>>, updated |-> <<>>,
             fetched |-> <<>>, labelFilter |-> 0, result |-> <<>>]

IdleReq == [tool |-> "", args |-> NoArgs, pc |-> "idle", execs |-> 0, client |-> 0,
            wait |-> 0, fresh |-> FALSE, outs |-> <<>>, prevClient |-> 0, clears |-> 0, lookups |-> 0, writes |-> 0,
            loc |-> NoLocals, result |-> Ok(<<>>)]

\* the operation throws e / returns v: the execution is over
Throw(q, e)  == [q EXCEPT !.pc = "settled", !.outs = Append(@, e), !.fresh = FALSE]
Return(q, v) == [q EXCEPT !.pc = "settled", !.outs = Append(@, Ok(v)), !.fresh = FALSE]
\* the next store call is issued; lookups counts the findOne/findAll calls of
\* projects and issues, writes the mutating calls
Lookup(q, pc) == [q EXCEPT !.pc = pc, !.lookups = @ + 1, !.fresh = FALSE]
Call(q, pc)   == [q EXCEPT !.pc = pc, !.fresh = FALSE]

(* ------------------------------- store -------------------------------- *)
ProjectIds == {"pP", "pQ"}

\* findOne(tracker.class.Project, {identifier}): the document's id, "" for none
FindProjectDoc(ident) ==
  IF \E p \in ProjectIds : projects[p].identifier = ident
  THEN CHOOSE p \in ProjectIds : projects[p].identifier = ident
  ELSE ""

\* findOne(tracker.class.Issue, {space, number}): the first match, in store order
FindIssueDoc(space, number) ==
  LET hits == {i \in 1..Len(issues) : issues[i].space = space /\ issues[i].number = number}
  IN IF hits = {} THEN NoIssue
     ELSE issues[CHOOSE i \in hits : \A j \in hits : i <= j]

\* findOne(tags.class.TagElement, {title, targetClass: Issue})
FindTagDoc(title) ==
  LET hits == {i \in 1..Len(tagElements) : tagElements[i].title = title}
  IN IF hits = {} THEN NoTag
     ELSE tagElements[CHOOSE i \in hits : \A j \in hits : i <= j]

\* the store's clock: later than every modifiedOn it has stamped
RECURSIVE MaxModifiedOn(_)
MaxModifiedOn(docs) ==
  IF docs = <<>> THEN 0
  ELSE LET m == MaxModifiedOn(Tail(docs))
       IN IF Head(docs).modifiedOn > m THEN Head(docs).modifiedOn ELSE m

Now == MaxModifiedOn(issues) + 1

\* findAll(tags.class.TagReference, {attachedTo}), in store order
RefsOf(issueRef) == SelectSeq(tagRefs, LAMBDA t : t.attachedTo = issueRef)

\* the same query without the attachedTo field
HasRefAnyIssue(issueRef, tagId) ==
  \E i \in 1..Len(tagRefs) : tagRefs[i].tag = tagId

\* findOne(tags.class.TagReference, {attachedTo, tag}) finds a document
HasRef(issueRef, tagId) ==
  \E i \in 1..Len(tagRefs) : tagRefs[i].attachedTo = issueRef /\ tagRefs[i].tag = tagId

(* ------------------------- connection manager ------------------------- *)
NewAttemptNoCheck ==
  [state |-> "pending",  handled |-> FALSE, network |-> TRUE,  err |-> Ok(<<>>)]
\* createConnection() up to its first await: the promise it returns
NewAttempt ==
  IF config
  THEN [state |-> "pending",  handled |-> FALSE, network |-> TRUE,  err |-> Ok(<<>>)]
  ELSE [state |-> "rejected", handled |-> FALSE, network |-> FALSE, err |-> ConfigError]

Pending == {a \in 1..Len(attempts) : attempts[a].state = "pending"}

clearConnectionKeepsClient == [cachedClient |-> cachedClient, connectionPromise |-> 0]
\* clearConnection(): what it leaves in cachedClient and connectionPromise
clearConnection == [cachedClient |-> 0, connectionPromise |-> 0]

(* ------------------------- composite issue ids ------------------------ *)
LongFormatTools  == {"get_issue", "add_relation", "add_blocked_by", "set_parent"}
ShortFormatTools == {"update_issue", "add_label", "remove_label"}
TwoIdTools       == {"add_relation", "add_blocked_by", "set_parent"}
IdTools          == LongFormatTools \cup ShortFormatTools

InvalidFormat(tool, id) ==
  IF tool \in LongFormatTools THEN InvalidFormatLong(id) ELSE InvalidFormatShort(id)

\* the regex test that opens every resolution, then the project lookup
Parse(q, id, pc) ==
  IF ~IdMatch(id) THEN Throw(q, InvalidFormat(q.tool, id)) ELSE Lookup(q, pc)

\* the tool function from the return of getClient() to its first store call
BeginTool(q) ==
  CASE q.tool \in IdTools       -> Parse(q, q.args.issueId, "findProject")
    [] q.tool = "list_labels"    -> Call(q, "ll_findAll")
    [] q.tool = "create_label"   -> Call(q, "cl_find")
    [] q.tool = "create_issue"   -> Lookup(q, "ci_findProject")
    [] q.tool = "list_projects"  -> Lookup(q, "lp_projects")
    [] q.tool = "get_project"    -> Lookup(q, "gp_find")
    [] q.tool = "list_issues"    -> Lookup(q, "li_findProject")

\* handleToolCall(name, args) up to the first await: the switch, the tool
\* function's call of getClient(), and getClient() up to its await.  cc and cp
\* are cachedClient and connectionPromise as the call finds them; the result is
\* the request, connectionPromise and the promises afterwards.
HandleToolCall(q, cc, cp) ==
  IF q.tool \notin ToolNames THEN
    [q |-> Throw(q, UnknownTool(q.tool)), connectionPromise |-> cp, attempts |-> attempts]
  ELSE IF cc # 0 THEN
    [q |-> BeginTool([q EXCEPT !.client = cc]), connectionPromise |-> cp,
     attempts |-> attempts]
  ELSE IF cp # 0 THEN
    [q |-> [q EXCEPT !.pc = "awaitConn", !.wait = cp], connectionPromise |-> cp,
     attempts |-> attempts]
  ELSE
    [q |-> [q EXCEPT !.pc = "connecting", !.wait = Len(attempts) + 1],
     connectionPromise |-> Len(attempts) + 1,
     attempts |-> Append(attempts, NewAttempt)]

\* the model's bound on connection attempts lets the call start one
MayConnect(q, cc, cp) ==
  (q.tool \in ToolNames /\ cc = 0 /\ cp = 0) => Len(attempts) < MaxAttempts

\* the request has a continuation in the microtask queue: its operation has
\* ended and withReconnect resumes, or the promise it awaits in getClient() has
\* settled (a caller that found the promise recorded resumes after the caller
\* that created it)
HasMicrotask(q) ==
  \/ q.pc = "settled"
  \/ q.pc = "connecting" /\ attempts[q.wait].state # "pending"
  \/ q.pc = "awaitConn" /\ attempts[q.wait].handled

\* the microtask queue is empty: the event loop takes the next I/O event
Quiescent == \A s \in Reqs : ~HasMicrotask(req[s])

\* the dispatcher delivers a tool call: the request handler runs withReconnect,
\* which runs the operation for the first time.  The handler starts from an I/O
\* event, or right behind the handlers of requests read in the same chunk.
Deliver(r, Inputs) ==
  /\ req[r].pc = "idle"
  /\ \A s \in Reqs : s < r => req[s].pc # "idle"
  /\ \A s \in Reqs : HasMicrotask(req[s]) => req[s].fresh
  /\ \E in \in Inputs :
       LET q == [IdleReq EXCEPT !.tool = in.tool, !.args = in.args, !.execs = 1]
           h == HandleToolCall(q, cachedClient, connectionPromise)
       IN /\ MayConnect(q, cachedClient, connectionPromise)
          /\ req' = [req EXCEPT ![r] = [h.q EXCEPT !.fresh = TRUE]]
          /\ connectionPromise' = h.connectionPromise
          /\ attempts' = h.attempts
  /\ UNCHANGED <<config, cachedClient, store, faults, calls, snap, last>>

\* the same, when calls are delivered one after another: no other call is in flight
DeliverSeq(Inputs, max) ==
  /\ calls < max
  /\ \A s \in Reqs : req[s].pc = "idle"
  /\ \E in \in Inputs :
       LET q == [IdleReq EXCEPT !.tool = in.tool, !.args = in.args, !.execs = 1]
           h == HandleToolCall(q, cachedClient, connectionPromise)
       IN /\ MayConnect(q, cachedClient, connectionPromise)
          /\ req' = [req EXCEPT ![1] = h.q]
          /\ connectionPromise' = h.connectionPromise
          /\ attempts' = h.attempts
  /\ calls' = calls + 1
  /\ snap' = store
  /\ UNCHANGED <<config, cachedClient, store, faults, last>>

\* the response was sent; the next call may be delivered
Forget ==
  /\ req[1].pc = "done"
  /\ req' = [req EXCEPT ![1] = IdleReq]
  /\ UNCHANGED <<config, conn, store, faults, calls, snap, last>>

\* the response of request r was sent while other requests may be in flight;
\* its slot takes a later request
Respond(r) ==
  /\ req[r].pc = "done"
  /\ calls < MaxCalls
  /\ calls' = calls + 1
  /\ req' = [req EXCEPT ![r] = IdleReq]
  /\ UNCHANGED <<config, conn, store, faults, snap, last>>

\* the same, remembering the call for the claims about two calls in sequence
Recycle ==
  /\ req[1].pc = "done"
  /\ last' = [tool |-> req[1].tool, args |-> req[1].args, result |-> req[1].result]
  /\ req' = [req EXCEPT ![1] = IdleReq]
  /\ UNCHANGED <<config, conn, store, faults, calls, snap>>

\* connect() resolves
ConnectOk(a) ==
  /\ Quiescent
  /\ a \in Pending
  /\ attempts' = [attempts EXCEPT ![a].state = "resolved"]
  /\ UNCHANGED <<config, cachedClient, connectionPromise, req, store, faults, calls, snap, last>>

\* connect() rejects
ConnectFail(a) ==
  /\ Quiescent
  /\ a \in Pending
  /\ faults > 0
  /\ \E e \in ConnectFaults :
       attempts' = [attempts EXCEPT ![a].state = "rejected", ![a].err = e]
  /\ faults' = faults - 1
  /\ UNCHANGED <<config, cachedClient, connectionPromise, req, store, calls, snap, last>>

\* getClient() of the caller that started the attempt, from its await on:
\* cachedClient = await connectionPromise; finally connectionPromise = null
AfterConnect(r) ==
  LET q == req[r]
      a == q.wait
  IN /\ q.pc = "connecting"
     /\ attempts[a].state # "pending"
     /\ attempts' = [attempts EXCEPT ![a].handled = TRUE]
     /\ connectionPromise' = 0
     /\ IF attempts[a].state = "resolved"
        THEN /\ cachedClient' = a
             /\ req' = [req EXCEPT ![r] = BeginTool([q EXCEPT !.client = a])]
        ELSE /\ cachedClient' = cachedClient
             /\ req' = [req EXCEPT ![r] = Throw(q, attempts[a].err)]
     /\ UNCHANGED <<config, store, faults, calls, snap, last>>

\* getClient() of a caller that found an attempt recorded and returned its
\* promise: it resumes with what the promise settled to
AfterWait(r) ==
  LET q == req[r]
      a == q.wait
  IN /\ q.pc = "awaitConn"
     /\ attempts[a].handled
     /\ req' = [req EXCEPT ![r] =
                  IF attempts[a].state = "resolved"
                  THEN BeginTool([q EXCEPT !.client = a])
                  ELSE Throw(q, attempts[a].err)]
     /\ UNCHANGED <<config, conn, store, faults, calls, snap, last>>

\* withReconnect(operation), from the end of an execution of the operation,
\* and the request handler's try/catch around it
WithReconnect(r) ==
  LET q == req[r]
      o == q.outs[Len(q.outs)]
      again == [q EXCEPT !.execs = @ + 1, !.clears = @ + 1, !.loc = NoLocals,
                         !.prevClient = q.client, !.client = 0, !.wait = 0]
      h == HandleToolCall(again, clearConnection.cachedClient,
                          clearConnection.connectionPromise)
  IN /\ q.pc = "settled"
     /\ IF ~o.ok /\ q.execs = 1 /\ IsConnectionError(o)
        THEN /\ MayConnect(again, clearConnection.cachedClient,
                           clearConnection.connectionPromise)
             /\ cachedClient' = clearConnection.cachedClient
             /\ connectionPromise' = h.connectionPromise
             /\ attempts' = h.attempts
             /\ req' = [req EXCEPT ![r] = h.q]
        ELSE /\ req' = [req EXCEPT ![r] = [q EXCEPT !.pc = "done", !.result = o,
                                                     !.fresh = FALSE]]
             /\ UNCHANGED conn
     /\ UNCHANGED <<config, store, faults, calls, snap, last>>

\* a store call of the request is pending
InStoreCall(q) == q.pc \notin {"idle", "connecting", "awaitConn", "settled", "done"}

\* the store call of request r completes now
Completes(r, pc) == Quiescent /\ req[r].pc = pc

(* ------------------------------- labels ------------------------------- *)
DefaultColor == 5164484

\* listLabels()
ListLabels(r) ==
  /\ Completes(r, "ll_findAll")
  /\ req' = [req EXCEPT ![r] = Return(req[r],
                [labels |-> [i \in 1..Len(tagElements) |-> tagElements[i].title]])]
  /\ UNCHANGED <<config, conn, store, faults, calls, snap, last>>

(* ------------------------ names and priorities ------------------------ *)
\* String.prototype.toLowerCase on the names the model uses
toLowerCaseName(s) ==
  CASE s \in {"Todo", "TODO"} -> "todo"
    [] s \in {"Done", "DONE"} -> "done"
    [] s = "Backlog" -> "backlog"
    [] s = "In Progress" -> "in progress"
    [] s = "Canceled" -> "canceled"
    [] s \in {"High", "HIGH"} -> "high"
    [] s = "Urgent" -> "urgent"
    [] s \in {"Bug", "BUG"} -> "bug"
    [] OTHER -> s

Undefined == -1
\* PRIORITY_MAP[key]
PRIORITY_MAP(key) ==
  CASE key = "urgent" -> 1
    [] key = "high" -> 2
    [] key = "medium" -> 3
    [] key = "low" -> 4
    [] key = "none" -> 0
    [] OTHER -> Undefined

\* PRIORITY_NAMES[p] || 'Unknown'
PRIORITY_NAMES(p) ==
  CASE p = 0 -> "No Priority" [] p = 1 -> "Urgent" [] p = 2 -> "High"
    [] p = 3 -> "Medium" [] p = 4 -> "Low" [] OTHER -> "Unknown"

\* `${n}` for a number
RECURSIVE NumberToString(_)
NumberToString(n) ==
  LET d == CASE n % 10 = 0 -> "0" [] n % 10 = 1 -> "1" [] n % 10 = 2 -> "2"
             [] n % 10 = 3 -> "3" [] n % 10 = 4 -> "4" [] n % 10 = 5 -> "5"
             [] n % 10 = 6 -> "6" [] n % 10 = 7 -> "7" [] n % 10 = 8 -> "8"
             [] OTHER -> "9"
  IN IF n < 10 THEN <<d>> ELSE NumberToString(n \div 10) \o <<d>>

\* `${project.identifier}-${issue.number}`
CompositeId(p, number) == projects[p].identifier \o <<"-">> \o NumberToString(number)

(* ----------------------- resolving composite ids ---------------------- *)
\* the request completed a mutating store call
Wrote(q) == [q EXCEPT !.writes = @ + 1]

\* an edge check that never finds the edge
someNever(list, target) == FALSE

\* currentRelations.some(r => r._id === relatedIssue._id)
some(list, target) == \E k \in 1..Len(list) : list[k].id = target.id

\* addRelation / addBlockedBy / setParent once both issues are resolved
AfterResolve2(q) ==
  CASE q.tool = "add_relation" ->
         IF some(q.loc.issue.relations, q.loc.issue2)
         THEN Return(q, [message |-> "Issues are already related"])
         ELSE Call(q, "ar_update")
    [] q.tool = "add_blocked_by" ->
         IF some(q.loc.issue.blockedBy, q.loc.issue2)
         THEN Return(q, [message |-> "is already blocked by"])
         ELSE Call(q, "ab_update")
    [] q.tool = "set_parent" -> Call(q, "sp_update")

\* updateIssue: the update of the non-description fields, if any, then the
\* description
UpdateDescription(q) ==
  IF q.args.description # <<>> THEN Call(q, "ui_upload")
  ELSE Return(q, [id |-> q.args.issueId, updated |-> q.loc.updated])

UpdateApply(q) ==
  IF q.loc.updates # <<>> THEN Call(q, "ui_update") ELSE UpdateDescription(q)

\* updateIssue: title and priority
UpdateBuild(q) ==
  LET t  == IF q.args.title # <<>>
            THEN [u |-> << <<"title", q.args.title[1]>> >>, f |-> <<"title">>]
            ELSE [u |-> <<>>, f |-> <<>>]
      pm == IF q.args.priority # <<>>
            THEN PRIORITY_MAP(toLowerCaseName(q.args.priority[1])) ELSE Undefined
      pr == IF q.args.priority # <<>>
            THEN [u |-> << <<"priority", IF pm # Undefined THEN pm ELSE q.loc.issue.priority>> >>,
                  f |-> <<"priority">>]
            ELSE [u |-> <<>>, f |-> <<>>]
      q1 == [q EXCEPT !.loc.updates = t.u \o pr.u, !.loc.updated = t.f \o pr.f]
  IN IF q.args.status # <<>> THEN Call(q1, "ui_statuses") ELSE UpdateApply(q1)

\* the tool function once its (first) issue is resolved
AfterResolve(q) ==
  CASE q.tool = "get_issue" -> Call(q, "gi_status")
    [] q.tool = "update_issue" -> UpdateBuild(q)
    [] q.tool = "add_label" ->
         Call([q EXCEPT !.loc.target = q.loc.issue.id, !.loc.labelName = q.args.label],
              "al_findTag")
    [] q.tool = "remove_label" -> Call(q, "rl_findRefs")
    [] q.tool \in TwoIdTools -> Parse(q, q.args.otherId, "findProject2")

\* findOne(tracker.class.Project, {identifier: projectId.toUpperCase()})
FindProject(r) ==
  LET q   == req[r]
      key == IdKey(q.args.issueId)
      p   == FindProjectDoc(toUpperCase(key))
  IN /\ Completes(r, "findProject")
     /\ req' = [req EXCEPT ![r] =
                  IF p = "" THEN Throw(q, ProjectNotFound(key))
                  ELSE Lookup([q EXCEPT !.loc.project = p], "findIssue")]
     /\ UNCHANGED <<config, conn, store, faults, calls, snap, last>>

\* findOne(tracker.class.Issue, {space, number: parseInt(issueNum)})
FindIssue(r) ==
  LET q == req[r]
      i == FindIssueDoc(q.loc.project, parseInt(IdNum(q.args.issueId)))
  IN /\ Completes(r, "findIssue")
     /\ req' = [req EXCEPT ![r] =
                  IF i = NoIssue THEN Throw(q, IssueNotFound(q.args.issueId))
                  ELSE AfterResolve([q EXCEPT !.loc.issue = i])]
     /\ UNCHANGED <<config, conn, store, faults, calls, snap, last>>

\* parseAndFindIssue for the second id: the project
FindProject2(r) ==
  LET q   == req[r]
      key == IdKey(q.args.otherId)
      p   == FindProjectDoc(toUpperCase(key))
  IN /\ Completes(r, "findProject2")
     /\ req' = [req EXCEPT ![r] =
                  IF p = "" THEN Throw(q, ProjectNotFound(key))
                  ELSE Lookup([q EXCEPT !.loc.project2 = p], "findIssue2")]
     /\ UNCHANGED <<config, conn, store, faults, calls, snap, last>>

\* parseAndFindIssue for the second id: the issue
FindIssue2(r) ==
  LET q == req[r]
      i == FindIssueDoc(q.loc.project2, parseInt(IdNum(q.args.otherId)))
  IN /\ Completes(r, "findIssue2")
     /\ req' = [req EXCEPT ![r] =
                  IF i = NoIssue THEN Throw(q, IssueNotFound(q.args.otherId))
                  ELSE AfterResolve2([q EXCEPT !.loc.issue2 = i])]
     /\ UNCHANGED <<config, conn, store, faults, calls, snap, last>>

(* ------------------------------ relations ----------------------------- *)
\* the edge record {_id, _class} of an issue
EdgeTo(i) == [id |-> i.id, class |-> "tracker:class:Issue"]

\* the documents after updateDoc(..., issue._id, {relations: newRelations}), where
\* issue is the document as the request read it
RelationsMirrored(docs, issue, related) ==
  [i \in 1..Len(docs) |->
     IF i = issue.id
     THEN [docs[i] EXCEPT !.relations = Append(issue.relations, EdgeTo(related)),
                          !.modifiedOn = Now]
     ELSE IF i = related.id
     THEN [docs[i] EXCEPT !.relations = Append(@, EdgeTo(issue))]
     ELSE docs[i]]
RelationsUpdated(docs, issue, related) ==
  [docs EXCEPT ![issue.id].relations = Append(issue.relations, EdgeTo(related)),
               ![issue.id].modifiedOn = Now]

\* addRelation: updateDoc(..., {relations: newRelations})
AddRelation(r) ==
  LET q == req[r]
  IN /\ Completes(r, "ar_update")
     /\ issues' = RelationsUpdated(issues, q.loc.issue, q.loc.issue2)
     /\ req' = [req EXCEPT ![r] = Return(Wrote(q), [message |-> "Added relation"])]
     /\ UNCHANGED <<config, conn, projects, tagElements, tagRefs, nextRef, statuses,
                    faults, calls, snap, last>>

\* addBlockedBy: updateDoc(..., {blockedBy: newBlockedBy})
AddBlockedBy(r) ==
  LET q == req[r]
  IN /\ Completes(r, "ab_update")
     /\ issues' = [issues EXCEPT ![q.loc.issue.id].blockedBy =
                                   Append(q.loc.issue.blockedBy, EdgeTo(q.loc.issue2)),
                                 ![q.loc.issue.id].modifiedOn = Now]
     /\ req' = [req EXCEPT ![r] = Return(Wrote(q), [message |-> "Added dependency"])]
     /\ UNCHANGED <<config, conn, projects, tagElements, tagRefs, nextRef, statuses,
                    faults, calls, snap, last>>

\* setParent: updateDoc(..., {attachedTo, parents: [parentInfo]})
\* the fields set_parent writes on the child
SetParentAppends(doc, parentInfo) ==
  [doc EXCEPT !.attachedTo = parentInfo.parentId,
              !.parents = Append(@, parentInfo)]
SetParentFields(doc, parentInfo) ==
  [doc EXCEPT !.attachedTo = parentInfo.parentId,
              !.parents = <<parentInfo>>]

SetParent(r) ==
  LET q == req[r]
      parentInfo == [parentId |-> q.loc.issue2.id,
                     identifier |-> CompositeId(q.loc.project2, q.loc.issue2.number),
                     parentTitle |-> q.loc.issue2.title,
                     space |-> q.loc.project2]
  IN /\ Completes(r, "sp_update")
     /\ issues' = [issues EXCEPT ![q.loc.issue.id] =
                      [SetParentFields(@, parentInfo) EXCEPT !.modifiedOn = Now]]
     /\ req' = [req EXCEPT ![r] = Return(Wrote(q), [message |-> "Set parent"])]
     /\ UNCHANGED <<config, conn, projects, tagElements, tagRefs, nextRef, statuses,
                    faults, calls, snap, last>>

\* args.title, a required argument
TitleArg(q) == IF q.args.title # <<>> THEN q.args.title[1] ELSE "undefined"

\* createIssue's return value
CreateIssueResult(q) ==
  [id |-> CompositeId(q.loc.project, q.loc.nextNumber), internalId |-> q.loc.target,
   title |-> TitleArg(q),
   status |-> IF q.args.status # <<>> /\ q.args.status[1] # "" THEN q.args.status[1] ELSE "Todo",
   priority |-> IF q.args.priority # <<>> /\ q.args.priority[1] # ""
                THEN q.args.priority[1] ELSE "none"]

\* addLabelToIssue returns: addLabel returns its message, createIssue goes on
\* with the next label
LabelDone(q, message) ==
  IF q.tool = "add_label" THEN Return(q, [message |-> message, label |-> q.loc.labelName])
  ELSE IF q.loc.n < Len(q.args.labels)
  THEN Call([q EXCEPT !.loc.n = @ + 1, !.loc.labelName = q.args.labels[q.loc.n + 1],
                      !.loc.tag = NoTag], "al_findTag")
  ELSE Return(q, CreateIssueResult(q))

\* addLabelToIssue: findOne(tags.class.TagElement, {title: labelName})
FindTag(r) ==
  LET q == req[r]
      t == FindTagDoc(q.loc.labelName)
  IN /\ Completes(r, "al_findTag")
     /\ req' = [req EXCEPT ![r] =
                  IF t = NoTag THEN Call(q, "al_createTag")
                  ELSE Call([q EXCEPT !.loc.tag = t], "al_findRef")]
     /\ UNCHANGED <<config, conn, store, faults, calls, snap, last>>

\* addLabelToIssue: createDoc(tags.class.TagElement, ...) with a generated id
CreateTag(r) ==
  LET q == req[r]
      t == [id |-> Len(tagElements) + 1, title |-> q.loc.labelName, color |-> DefaultColor]
  IN /\ Completes(r, "al_createTag")
     /\ Len(tagElements) < MaxTags
     /\ tagElements' = Append(tagElements, t)
     /\ req' = [req EXCEPT ![r] = Call(Wrote([q EXCEPT !.loc.tag = t]), "al_findRef")]
     /\ UNCHANGED <<config, conn, projects, issues, tagRefs, nextRef, statuses,
                    faults, calls, snap, last>>

\* addLabelToIssue: findOne(tags.class.TagReference, {attachedTo, tag})
FindRef(r) ==
  LET q == req[r]
  IN /\ Completes(r, "al_findRef")
     /\ req' = [req EXCEPT ![r] =
                  IF HasRef(q.loc.target, q.loc.tag.id) THEN LabelDone(q, "already attached")
                  ELSE Call(q, "al_addRef")]
     /\ UNCHANGED <<config, conn, store, faults, calls, snap, last>>

\* addLabelToIssue: addCollection(tags.class.TagReference, ...)
AddRef(r) ==
  LET q == req[r]
  IN /\ Completes(r, "al_addRef")
     /\ nextRef <= MaxRefs
     /\ tagRefs' = Append(tagRefs, [id |-> nextRef, attachedTo |-> q.loc.target,
                                    tag |-> q.loc.tag.id, title |-> q.loc.tag.title,
                                    color |-> q.loc.tag.color])
     /\ nextRef' = nextRef + 1
     /\ req' = [req EXCEPT ![r] = LabelDone(Wrote(q), "added")]
     /\ UNCHANGED <<config, conn, projects, issues, tagElements, statuses,
                    faults, calls, snap, last>>

\* removeLabel: findAll(tags.class.TagReference, {attachedTo}) and the search
\* of the title
FindRefs(r) ==
  LET q    == req[r]
      refs == RefsOf(q.loc.issue.id)
      hits == {k \in 1..Len(refs) :
                 toLowerCaseName(refs[k].title) = toLowerCaseName(q.args.label)}
  IN /\ Completes(r, "rl_findRefs")
     /\ req' = [req EXCEPT ![r] =
                  IF hits = {}
                  THEN Return(q, [message |-> "not found on issue", label |-> q.args.label])
                  ELSE Call([q EXCEPT !.loc.tag = refs[CHOOSE k \in hits : \A j \in hits : k <= j]],
                            "rl_remove")]
     /\ UNCHANGED <<config, conn, store, faults, calls, snap, last>>

\* the attachments after removeDoc(tags.class.TagReference, tagRef.space, tagRef._id)
removeDocTitled(refs, tagRef) == SelectSeq(refs, LAMBDA t : t.title # tagRef.title)
removeDoc(refs, tagRef) == SelectSeq(refs, LAMBDA t : t.id # tagRef.id)

\* removeLabel: removeDoc(tags.class.TagReference, tagRef.space, tagRef._id)
RemoveRef(r) ==
  LET q == req[r]
  IN /\ Completes(r, "rl_remove")
     /\ tagRefs' = removeDoc(tagRefs, q.loc.tag)
     /\ req' = [req EXCEPT ![r] = Return(Wrote(q), [message |-> "removed", label |-> q.args.label])]
     /\ UNCHANGED <<config, conn, projects, issues, tagElements, nextRef, statuses,
                    faults, calls, snap, last>>

\* createLabel: findOne(tags.class.TagElement, {title: name})
CreateLabelFind(r) ==
  LET q == req[r]
      t == FindTagDoc(q.args.label)
  IN /\ Completes(r, "cl_find")
     /\ req' = [req EXCEPT ![r] =
                  IF t # NoTag THEN Return(q, [message |-> "already exists", id |-> t.id])
                  ELSE Call(q, "cl_projects")]
     /\ UNCHANGED <<config, conn, store, faults, calls, snap, last>>

\* createLabel: findAll(tracker.class.Project, {}) for the space
CreateLabelProjects(r) ==
  /\ Completes(r, "cl_projects")
  /\ req' = [req EXCEPT ![r] = Call(req[r], "cl_create")]
  /\ UNCHANGED <<config, conn, store, faults, calls, snap, last>>

\* createLabel: createDoc(tags.class.TagElement, ...) with a generated id
CreateLabelCreate(r) ==
  LET q == req[r]
      t == [id |-> Len(tagElements) + 1, title |-> q.args.label,
            color |-> IF q.args.color # <<>> /\ q.args.color[1] # 0
                      THEN q.args.color[1] ELSE DefaultColor]
  IN /\ Completes(r, "cl_create")
     /\ Len(tagElements) < MaxTags
     /\ tagElements' = Append(tagElements, t)
     /\ req' = [req EXCEPT ![r] = Return(Wrote(q), [message |-> "created", id |-> t.id])]
     /\ UNCHANGED <<config, conn, projects, issues, tagRefs, nextRef, statuses,
                    faults, calls, snap, last>>

(* ------------------------------- issues ------------------------------- *)
\* an issue document that drops the title it is given
NewIssueDocUntitled(id, space, number, title, description, status, priority, modifiedOn) ==
  [id |-> id, space |-> space, number |-> number, title |-> "",
   description |-> description, status |-> status, priority |-> priority,
   relations |-> <<>>, blockedBy |-> <<>>, parents |-> <<>>, attachedTo |-> space,
   modifiedOn |-> modifiedOn]

\* the issue document of addCollection(tracker.class.Issue, ...); modifiedOn is
\* the time of the last transaction on the document, stamped by the store
NewIssueDoc(id, space, number, title, description, status, priority, modifiedOn) ==
  [id |-> id, space |-> space, number |-> number, title |-> title,
   description |-> description, status |-> status, priority |-> priority,
   relations |-> <<>>, blockedBy |-> <<>>, parents |-> <<>>, attachedTo |-> space,
   modifiedOn |-> modifiedOn]

\* statuses.find(s => s.name.toLowerCase() === name.toLowerCase())?._id, "" for none
FindStatusId(name) ==
  LET hits == {k \in 1..Len(statuses) :
                 toLowerCaseName(statuses[k].name) = toLowerCaseName(name)}
  IN IF hits = {} THEN "" ELSE statuses[CHOOSE k \in hits : \A j \in hits : k <= j].id

\* createIssue: findOne(tracker.class.Project, ...) and nextNumber
CreateIssueProject(r) ==
  LET q == req[r]
      p == FindProjectDoc(toUpperCase(q.args.project))
  IN /\ Completes(r, "ci_findProject")
     /\ req' = [req EXCEPT ![r] =
                  IF p = "" THEN Throw(q, ProjectNotFound(q.args.project))
                  ELSE Call([q EXCEPT !.loc.project = p,
                                      !.loc.nextNumber = projects[p].sequence + 1], "ci_seq")]
     /\ UNCHANGED <<config, conn, store, faults, calls, snap, last>>

\* createIssue: updateDoc(tracker.class.Project, ..., {sequence: nextNumber})
CreateIssueSequence(r) ==
  LET q == req[r]
  IN /\ Completes(r, "ci_seq")
     /\ projects' = [projects EXCEPT ![q.loc.project].sequence = q.loc.nextNumber]
     /\ req' = [req EXCEPT ![r] = Call(Wrote(q), "ci_statuses")]
     /\ UNCHANGED <<config, conn, issues, tagElements, tagRefs, nextRef, statuses,
                    faults, calls, snap, last>>

\* createIssue: findAll(tracker.class.IssueStatus, {}) and the choice of statusId
CreateIssueStatus(r) ==
  LET q     == req[r]
      found == IF q.args.status # <<>> /\ q.args.status[1] # ""
               THEN FindStatusId(q.args.status[1]) ELSE ""
      todo  == {k \in 1..Len(statuses) : statuses[k].name = "Todo"}
      dflt  == IF todo # {} THEN statuses[CHOOSE k \in todo : \A j \in todo : k <= j].id
               ELSE IF statuses # <<>> THEN statuses[1].id ELSE ""
  IN /\ Completes(r, "ci_statuses")
     /\ req' = [req EXCEPT ![r] =
                  Call([q EXCEPT !.loc.statusId = IF found # "" THEN found ELSE dflt], "ci_add")]
     /\ UNCHANGED <<config, conn, store, faults, calls, snap, last>>

\* createIssue: addCollection(tracker.class.Issue, ...) with a generated id,
\* then the first label
CreateIssueAdd(r) ==
  LET q  == req[r]
      id == Len(issues) + 1
      pm == IF q.args.priority # <<>>
            THEN PRIORITY_MAP(toLowerCaseName(q.args.priority[1])) ELSE Undefined
      q1 == Wrote([q EXCEPT !.loc.target = id])
  IN /\ Completes(r, "ci_add")
     /\ Len(issues) < MaxIssues
     /\ issues' = Append(issues,
                    NewIssueDoc(id, q.loc.project, q.loc.nextNumber, TitleArg(q),
                                IF q.args.description # <<>> THEN q.args.description[1] ELSE "",
                                q.loc.statusId, IF pm # Undefined THEN pm ELSE 0, Now))
     /\ req' = [req EXCEPT ![r] =
                  IF q.args.labels # <<>>
                  THEN Call([q1 EXCEPT !.loc.n = 1, !.loc.labelName = q.args.labels[1]],
                            "al_findTag")
                  ELSE Return(q1, CreateIssueResult(q1))]
     /\ UNCHANGED <<config, conn, projects, tagElements, tagRefs, nextRef, statuses,
                    faults, calls, snap, last>>

\* getIssue's return value
IssueProjection(q, description) ==
  [id |-> CompositeId(q.loc.project, q.loc.issue.number), internalId |-> q.loc.issue.id,
   title |-> q.loc.issue.title, description |-> description,
   status |-> q.loc.statusName, priority |-> PRIORITY_NAMES(q.loc.issue.priority),
   labels |-> q.loc.labels]

\* getIssue: findOne(tracker.class.IssueStatus, {_id: issue.status})
GetIssueStatus(r) ==
  LET q    == req[r]
      hits == {k \in 1..Len(statuses) : statuses[k].id = q.loc.issue.status}
      name == IF hits = {} THEN "Unknown" ELSE statuses[CHOOSE k \in hits : TRUE].name
  IN /\ Completes(r, "gi_status")
     /\ req' = [req EXCEPT ![r] = Call([q EXCEPT !.loc.statusName = name], "gi_refs")]
     /\ UNCHANGED <<config, conn, store, faults, calls, snap, last>>

\* getIssue: findAll(tags.class.TagReference, {attachedTo: issue._id})
\* getIssue: findAll(tags.class.TagReference, {attachedTo: issue._id})
GetIssueRefsTouching(r) ==
  LET q    == req[r]
      refs == RefsOf(q.loc.issue.id)
      q1   == [q EXCEPT !.loc.labels = [k \in 1..Len(refs) |-> refs[k].title]]
  IN /\ Completes(r, "gi_refs")
     /\ req' = [req EXCEPT ![r] =
                  IF q.loc.issue.description # "" THEN Call(q1, "gi_markup")
                  ELSE Return(q1, IssueProjection(q1, ""))]
     /\ issues' = [issues EXCEPT ![q.loc.issue.id].modifiedOn = Now]
     /\ UNCHANGED <<config, conn, projects, tagElements, tagRefs, nextRef, statuses,
                    faults, calls, snap, last>>

GetIssueRefs(r) ==
  LET q    == req[r]
      refs == RefsOf(q.loc.issue.id)
      q1   == [q EXCEPT !.loc.labels = [k \in 1..Len(refs) |-> refs[k].title]]
  IN /\ Completes(r, "gi_refs")
     /\ req' = [req EXCEPT ![r] =
                  IF q.loc.issue.description # "" THEN Call(q1, "gi_markup")
                  ELSE Return(q1, IssueProjection(q1, ""))]
     /\ UNCHANGED <<config, conn, store, faults, calls, snap, last>>

\* getIssue: client.fetchMarkup(...)
GetIssueMarkup(r) ==
  LET q == req[r]
  IN /\ Completes(r, "gi_markup")
     /\ req' = [req EXCEPT ![r] = Return(q, IssueProjection(q, q.loc.issue.description))]
     /\ UNCHANGED <<config, conn, store, faults, calls, snap, last>>

\* updateIssue: findAll(tracker.class.IssueStatus, {}) and the search of the name
\* updateIssue: if (found) { updates.status = found._id; updatedFields.push('status') }
StatusUpdateAlways(q, found) ==
  [q EXCEPT !.loc.updates = Append(@, <<"status", found>>),
            !.loc.updated = Append(@, "status")]
StatusUpdate(q, found) ==
  IF found # ""
  THEN [q EXCEPT !.loc.updates = Append(@, <<"status", found>>),
                 !.loc.updated = Append(@, "status")]
  ELSE q

UpdateStatuses(r) ==
  LET q     == req[r]
      found == FindStatusId(q.args.status[1])
      q1    == StatusUpdate(q, found)
  IN /\ Completes(r, "ui_statuses")
     /\ req' = [req EXCEPT ![r] = UpdateApply(q1)]
     /\ UNCHANGED <<config, conn, store, faults, calls, snap, last>>

\* the document after updateDoc(..., updates)
RECURSIVE ApplyUpdates(_, _)
ApplyUpdates(doc, updates) ==
  IF updates = <<>> THEN doc
  ELSE LET u == Head(updates)
           d == CASE u[1] = "title" -> [doc EXCEPT !.title = u[2]]
                  [] u[1] = "priority" -> [doc EXCEPT !.priority = u[2]]
                  [] u[1] = "status" -> [doc EXCEPT !.status = u[2]]
       IN ApplyUpdates(d, Tail(updates))

\* updateIssue: updateDoc(tracker.class.Issue, project._id, issue._id, updates)
UpdateDoc(r) ==
  LET q == req[r]
  IN /\ Completes(r, "ui_update")
     /\ issues' = [issues EXCEPT ![q.loc.issue.id] =
                     [ApplyUpdates(@, q.loc.updates) EXCEPT !.modifiedOn = Now]]
     /\ req' = [req EXCEPT ![r] = UpdateDescription(Wrote(q))]
     /\ UNCHANGED <<config, conn, projects, tagElements, tagRefs, nextRef, statuses,
                    faults, calls, snap, last>>

\* updateIssue: client.markup.uploadMarkup(...)
UploadMarkup(r) ==
  /\ Completes(r, "ui_upload")
  /\ req' = [req EXCEPT ![r] = Call(req[r], "ui_descUpdate")]
  /\ UNCHANGED <<config, conn, store, faults, calls, snap, last>>

\* updateIssue: client.client.updateDoc(..., {description: markupRef})
UpdateDescriptionDoc(r) ==
  LET q == req[r]
      u == Append(q.loc.updated, "description")
  IN /\ Completes(r, "ui_descUpdate")
     /\ issues' = [issues EXCEPT ![q.loc.issue.id].description = q.args.description[1],
                                 ![q.loc.issue.id].modifiedOn = Now]
     /\ req' = [req EXCEPT ![r] = Return(Wrote(q), [id |-> q.args.issueId, updated |-> u])]
     /\ UNCHANGED <<config, conn, projects, tagElements, tagRefs, nextRef, statuses,
                    faults, calls, snap, last>>

(* ----------------------------- list_issues ---------------------------- *)
DefaultLimit == 50

\* the documents of issues at the indices S, most recently modified first
RECURSIVE SortByModifiedOn(_)
SortByModifiedOn(S) ==
  IF S = {} THEN <<>>
  ELSE LET i == CHOOSE i \in S : \A j \in S : issues[j].modifiedOn <= issues[i].modifiedOn
       IN <<issues[i]>> \o SortByModifiedOn(S \ {i})

\* a limit that the query ignores
TakeAll(docs, n) == docs

\* the first n documents
Take(docs, n) == SubSeq(docs, 1, IF n < Len(docs) THEN n ELSE Len(docs))

\* statusMap.get(id) || dflt
StatusNameOf(id, dflt) ==
  LET hits == {k \in 1..Len(statuses) : statuses[k].id = id}
  IN IF hits = {} THEN dflt ELSE statuses[CHOOSE k \in hits : \A j \in hits : k <= j].name

\* the loop over the fetched issues: the next findAll of attachments, or the result
ListLoop(q) ==
  IF q.loc.fetched = <<>> THEN Return(q, q.loc.result) ELSE Call(q, "li_refs")

\* listIssues: findOne(tracker.class.Project, {identifier: project.toUpperCase()})
ListIssuesProject(r) ==
  LET q == req[r]
      p == FindProjectDoc(toUpperCase(q.args.project))
  IN /\ Completes(r, "li_findProject")
     /\ req' = [req EXCEPT ![r] =
                  IF p = "" THEN Throw(q, ProjectNotFound(q.args.project))
                  ELSE Call([q EXCEPT !.loc.project = p], "li_findAll")]
     /\ UNCHANGED <<config, conn, store, faults, calls, snap, last>>

\* listIssues: findAll(tracker.class.Issue, query, {limit, sort: {modifiedOn: -1}})
ListIssuesFind(r) ==
  LET q  == req[r]
      pm == IF q.args.priority # <<>>
            THEN PRIORITY_MAP(toLowerCaseName(q.args.priority[1])) ELSE Undefined
      byPriority == q.args.priority # <<>> /\ q.args.priority[1] # ""
      matching == {i \in 1..Len(issues) :
                     /\ issues[i].space = q.loc.project
                     /\ byPriority =>
                          issues[i].priority = (IF pm # Undefined THEN pm ELSE 0)}
      limit == IF q.args.limit # <<>> THEN q.args.limit[1] ELSE DefaultLimit
  IN /\ Completes(r, "li_findAll")
     /\ req' = [req EXCEPT ![r] =
                  Call([q EXCEPT !.loc.fetched = Take(SortByModifiedOn(matching), limit)],
                       "li_statuses")]
     /\ UNCHANGED <<config, conn, store, faults, calls, snap, last>>

\* listIssues: findAll(tracker.class.IssueStatus, {}) and the status filter
ListIssuesStatuses(r) ==
  LET q  == req[r]
      byStatus == q.args.status # <<>> /\ q.args.status[1] # ""
      kept == IF byStatus
              THEN SelectSeq(q.loc.fetched,
                             LAMBDA i : toLowerCaseName(StatusNameOf(i.status, ""))
                                          = toLowerCaseName(q.args.status[1]))
              ELSE q.loc.fetched
      q1 == [q EXCEPT !.loc.fetched = kept]
  IN /\ Completes(r, "li_statuses")
     /\ req' = [req EXCEPT ![r] = IF q.args.label # "" THEN Call(q1, "li_tags")
                                  ELSE ListLoop(q1)]
     /\ UNCHANGED <<config, conn, store, faults, calls, snap, last>>

\* listIssues: findAll(tags.class.TagElement, {title: label}) and labelFilter
ListIssuesTags(r) ==
  LET q == req[r]
      t == FindTagDoc(q.args.label)
  IN /\ Completes(r, "li_tags")
     /\ req' = [req EXCEPT ![r] = ListLoop([q EXCEPT !.loc.labelFilter = t.id])]
     /\ UNCHANGED <<config, conn, store, faults, calls, snap, last>>

\* listIssues: findAll(tags.class.TagReference, {attachedTo: issue._id}) for
\* the next fetched issue, the label filter and the projection
ListIssuesRefs(r) ==
  LET q    == req[r]
      i    == Head(q.loc.fetched)
      refs == RefsOf(i.id)
      skip == q.loc.labelFilter # 0
              /\ ~\E k \in 1..Len(refs) : refs[k].tag = q.loc.labelFilter
      row  == [id |-> CompositeId(q.loc.project, i.number), title |-> i.title,
               status |-> StatusNameOf(i.status, "Unknown"),
               priority |-> PRIORITY_NAMES(i.priority),
               labels |-> [k \in 1..Len(refs) |-> refs[k].title]]
      q1   == [q EXCEPT !.loc.fetched = Tail(@),
                        !.loc.result = IF skip THEN @ ELSE Append(@, row)]
  IN /\ Completes(r, "li_refs")
     /\ req' = [req EXCEPT ![r] = ListLoop(q1)]
     /\ UNCHANGED <<config, conn, store, faults, calls, snap, last>>

(* ----------------------------- projects ------------------------------- *)
\* findAll(tracker.class.Issue, {space}).length
IssueCount(p) == Cardinality({i \in 1..Len(issues) : issues[i].space = p})

\* the projection of a project: name falls back to the identifier
ProjectRow(p) ==
  [id |-> p, identifier |-> projects[p].identifier, name |-> projects[p].identifier,
   issueCount |-> IssueCount(p)]

\* listProjects' loop: the next findAll of issues, or the result
ProjectsLoop(q) ==
  IF q.loc.fetched = <<>> THEN Return(q, q.loc.result) ELSE Call(q, "lp_issues")

\* listProjects: findAll(tracker.class.Project, {})
ListProjects(r) ==
  /\ Completes(r, "lp_projects")
  /\ req' = [req EXCEPT ![r] = ProjectsLoop([req[r] EXCEPT !.loc.fetched = <<"pP", "pQ">>])]
  /\ UNCHANGED <<config, conn, store, faults, calls, snap, last>>

\* listProjects: findAll(tracker.class.Issue, {space: project._id}) and the row
ListProjectsIssues(r) ==
  LET q == req[r]
  IN /\ Completes(r, "lp_issues")
     /\ req' = [req EXCEPT ![r] =
                  ProjectsLoop([q EXCEPT !.loc.fetched = Tail(@),
                                         !.loc.result = Append(@, ProjectRow(Head(q.loc.fetched)))])]
     /\ UNCHANGED <<config, conn, store, faults, calls, snap, last>>

\* getProject: findOne(tracker.class.Project, {identifier: identifier.toUpperCase()})
GetProject(r) ==
  LET q == req[r]
      p == FindProjectDoc(toUpperCase(q.args.project))
  IN /\ Completes(r, "gp_find")
     /\ req' = [req EXCEPT ![r] =
                  IF p = "" THEN Throw(q, ProjectNotFound(q.args.project))
                  ELSE Call([q EXCEPT !.loc.project = p], "gp_issues")]
     /\ UNCHANGED <<config, conn, store, faults, calls, snap, last>>

\* getProject: findAll(tracker.class.Issue, {space: project._id}) and the result
GetProjectIssues(r) ==
  LET q == req[r]
  IN /\ Completes(r, "gp_issues")
     /\ req' = [req EXCEPT ![r] = Return(q, ProjectRow(q.loc.project))]
     /\ UNCHANGED <<config, conn, store, faults, calls, snap, last>>

(* --------------------------- failing store calls ---------------------- *)
\* what the operation does with the rejection e of its pending store call:
\* getIssue falls back to an empty description, updateIssue wraps a failure of
\* the description upload, everything else lets it propagate
FaultOutcome(q, e) ==
  CASE q.pc = "gi_markup" -> Return(q, IssueProjection(q, ""))
    [] q.pc \in {"ui_upload", "ui_descUpdate"} ->
         Throw(q, Err(<<"Failed to update description: ">> \o e.msg, ""))
    [] OTHER -> Throw(q, e)

\* the pending store call fails: the transport drops or the store refuses
StoreFault(r) ==
  /\ Quiescent
  /\ InStoreCall(req[r])
  /\ faults > 0
  /\ \E e \in StoreFaults : req' = [req EXCEPT ![r] = FaultOutcome(req[r], e)]
  /\ faults' = faults - 1
  /\ UNCHANGED <<config, conn, store, calls, snap, last>>

(* --------------------------- initial states --------------------------- *)
StatusDocs == << [id |-> "sBacklog", name |-> "Backlog"], [id |-> "sTodo", name |-> "Todo"],
                 [id |-> "sInProgress", name |-> "In Progress"], [id |-> "sDone", name |-> "Done"],
                 [id |-> "sCanceled", name |-> "Canceled"] >>

NoLast == [tool |-> "", args |-> NoArgs, result |-> Ok(<<>>)]

\* a workspace with projects P (two issues) and Q (none) and one label
InitStore ==
  /\ projects = [p \in ProjectIds |->
                   IF p = "pP" THEN [identifier |-> <<"P">>, sequence |-> 2]
                   ELSE [identifier |-> <<"Q">>, sequence |-> 0]]
  /\ issues = << NewIssueDoc(1, "pP", 1, "T1", "", "sTodo", 0, 1),
                 NewIssueDoc(2, "pP", 2, "T2", "", "sDone", 2, 2) >>
  /\ tagElements = << [id |-> 1, title |-> "bug", color |-> DefaultColor] >>
  /\ tagRefs = <<>>
  /\ nextRef = 1
  /\ statuses = StatusDocs

\* the process after start-up: nothing cached, no call delivered
InitProcess ==
  /\ cachedClient = 0
  /\ connectionPromise = 0
  /\ attempts = <<>>
  /\ req = [r \in Reqs |-> IdleReq]
  /\ calls = 0
  /\ snap = <<>>
  /\ last = NoLast

\* the process after a first call has connected: the handle is cached
InitConnected ==
  /\ cachedClient = 1
  /\ connectionPromise = 0
  /\ attempts = << [state |-> "resolved", handled |-> TRUE, network |-> TRUE,
                    err |-> Ok(<<>>)] >>
  /\ req = [r \in Reqs |-> IdleReq]
  /\ calls = 0
  /\ snap = <<>>
  /\ last = NoLast

(* ------------------- specification: the connection -------------------- *)
ConnInputs == {[tool |-> "list_labels", args |-> NoArgs],
               [tool |-> "socket", args |-> NoArgs]}

InitConn == config = TRUE /\ faults = MaxFaults /\ InitStore /\ InitProcess

NextConn ==
  \/ \E r \in Reqs : Deliver(r, ConnInputs)
  \/ \E a \in 1..MaxAttempts : ConnectOk(a)
  \/ \E a \in 1..MaxAttempts : ConnectFail(a)
  \/ \E r \in Reqs : AfterConnect(r)
  \/ \E r \in Reqs : AfterWait(r)
  \/ \E r \in Reqs : WithReconnect(r)
  \/ \E r \in Reqs : StoreFault(r)
  \/ \E r \in Reqs : ListLabels(r)

SpecConn == InitConn /\ [][NextConn]_vars

(* -------------------- specification: no configuration ----------------- *)
SomeIds == { <<"P", "-", "1">>, <<"P">>, <<"socket">> }

ConfigInputs ==
  {[tool |-> t, args |-> NoArgs] : t \in (ToolNames \ IdTools) \cup {"frobnicate"}}
  \cup {[tool |-> t, args |-> [NoArgs EXCEPT !.issueId = i, !.otherId = <<"P", "-", "2">>]] :
          t \in IdTools, i \in SomeIds}

InitConfig == config = FALSE /\ faults = 0 /\ InitStore /\ InitProcess

NextConfig ==
  \/ \E r \in Reqs : Deliver(r, ConfigInputs)
  \/ \E r \in Reqs : AfterConnect(r)
  \/ \E r \in Reqs : AfterWait(r)
  \/ \E r \in Reqs : WithReconnect(r)

SpecConfig == InitConfig /\ [][NextConfig]_vars

(* ------------------ specification: composite issue ids ---------------- *)
WellFormedIds == { <<"P", "-", "1">>, <<"p", "-", "2">>, <<"P", "-", "9">>,
                   <<"socket", "-", "1">> }
MalformedIds  == { <<"P">>, <<"P", "-">>, <<"-", "1">>, <<"P", "-", "1", "-", "2">>,
                   <<"socket">>, <<"P", "-", "Q">> }
ResolveIds == WellFormedIds \cup MalformedIds

ResolveInputs ==
  {[tool |-> t, args |-> [NoArgs EXCEPT !.issueId = i]] : t \in {"get_issue"}, i \in ResolveIds}
  \cup {[tool |-> "update_issue", args |-> [NoArgs EXCEPT !.issueId = i, !.title = <<"T">>]] :
          i \in ResolveIds}
  \cup {[tool |-> t, args |-> [NoArgs EXCEPT !.issueId = i, !.label = "bug"]] :
          t \in {"add_label", "remove_label"}, i \in ResolveIds}
  \cup {[tool |-> t, args |-> [NoArgs EXCEPT !.issueId = i, !.otherId = j]] :
          t \in TwoIdTools, i \in ResolveIds, j \in ResolveIds}

InitResolve == config = TRUE /\ faults = 1 /\ InitStore /\ InitProcess

NextResolve ==
  \/ DeliverSeq(ResolveInputs, MaxResolveCalls)
  \/ Forget
  \/ \E a \in 1..MaxAttempts : ConnectOk(a)
  \/ \E a \in 1..MaxAttempts : ConnectFail(a)
  \/ AfterConnect(1)
  \/ WithReconnect(1)
  \/ StoreFault(1)
  \/ FindProject(1) \/ FindIssue(1) \/ FindProject2(1) \/ FindIssue2(1)
  \/ GetIssueStatus(1) \/ GetIssueRefs(1)
  \/ UpdateDoc(1)
  \/ FindTag(1) \/ FindRef(1) \/ AddRef(1)
  \/ FindRefs(1)
  \/ AddRelation(1) \/ AddBlockedBy(1) \/ SetParent(1)

SpecResolve == InitResolve /\ [][NextResolve]_vars

(* ---------------- specification: labels, calls in sequence ------------ *)
LabelIssueIds == { <<"P", "-", "1">>, <<"P", "-", "2">> }
LabelTitles   == {"bug", "ux"}

AddLabelInputs ==
  {[tool |-> "add_label", args |-> [NoArgs EXCEPT !.issueId = i, !.label = l]] :
     i \in LabelIssueIds, l \in LabelTitles}

InitLabelSeq == config = TRUE /\ faults = 1 /\ InitStore /\ InitProcess

NextLabelSeq ==
  \/ DeliverSeq(AddLabelInputs, MaxCalls)
  \/ Recycle
  \/ \E a \in 1..MaxAttempts : ConnectOk(a)
  \/ \E a \in 1..MaxAttempts : ConnectFail(a)
  \/ AfterConnect(1)
  \/ WithReconnect(1)
  \/ StoreFault(1)
  \/ FindProject(1) \/ FindIssue(1)
  \/ FindTag(1) \/ CreateTag(1) \/ FindRef(1) \/ AddRef(1)

SpecLabelSeq == InitLabelSeq /\ [][NextLabelSeq]_vars

(* ---------------- specification: labels, concurrent calls ------------- *)
LabelInputs ==
  {[tool |-> "add_label", args |-> [NoArgs EXCEPT !.issueId = i, !.label = l]] :
     i \in LabelIssueIds, l \in LabelTitles}
  \cup {[tool |-> "create_label", args |-> [NoArgs EXCEPT !.label = l]] : l \in LabelTitles}
  \cup {[tool |-> "create_issue",
         args |-> [NoArgs EXCEPT !.project = <<"P">>, !.title = <<"T">>, !.labels = <<l>>]] :
          l \in LabelTitles}

InitLabel == config = TRUE /\ faults = 0 /\ InitStore /\ InitConnected

NextLabel ==
  \/ \E r \in Reqs : Deliver(r, LabelInputs)
  \/ \E r \in Reqs : WithReconnect(r)
  \/ \E r \in Reqs : FindProject(r)
  \/ \E r \in Reqs : FindIssue(r)
  \/ \E r \in Reqs : FindTag(r)
  \/ \E r \in Reqs : CreateTag(r)
  \/ \E r \in Reqs : FindRef(r)
  \/ \E r \in Reqs : AddRef(r)
  \/ \E r \in Reqs : CreateLabelFind(r)
  \/ \E r \in Reqs : CreateLabelProjects(r)
  \/ \E r \in Reqs : CreateLabelCreate(r)
  \/ \E r \in Reqs : CreateIssueProject(r)
  \/ \E r \in Reqs : CreateIssueSequence(r)
  \/ \E r \in Reqs : CreateIssueStatus(r)
  \/ \E r \in Reqs : CreateIssueAdd(r)

SpecLabel == InitLabel /\ [][NextLabel]_vars

(* -------------------- specification: relations ------------------------ *)
RelInputs ==
  {[tool |-> t, args |-> [NoArgs EXCEPT !.issueId = i, !.otherId = j]] :
     t \in {"add_relation", "add_blocked_by"}, i \in LabelIssueIds, j \in LabelIssueIds}

InitRel == config = TRUE /\ faults = 0 /\ InitStore /\ InitConnected

NextRel ==
  \/ \E r \in Reqs : Deliver(r, RelInputs)
  \/ \E r \in Reqs : WithReconnect(r)
  \/ \E r \in Reqs : FindProject(r)
  \/ \E r \in Reqs : FindIssue(r)
  \/ \E r \in Reqs : FindProject2(r)
  \/ \E r \in Reqs : FindIssue2(r)
  \/ \E r \in Reqs : AddRelation(r)
  \/ \E r \in Reqs : AddBlockedBy(r)

SpecRel == InitRel /\ [][NextRel]_vars

(* ------------- specification: issues, calls in sequence --------------- *)
CreateInputs ==
  {[tool |-> "create_issue", args |-> [NoArgs EXCEPT !.project = p, !.title = <<t>>]] :
     p \in {<<"P">>, <<"p">>, <<"Q">>}, t \in {"T", "U"}}

GetInputs ==
  {[tool |-> "get_issue", args |-> [NoArgs EXCEPT !.issueId = i]] :
     i \in {<<"P", "-", "3">>, <<"P", "-", "4">>, <<"Q", "-", "1">>, <<"P", "-", "1">>}}

InitIssueSeq == config = TRUE /\ faults = 1 /\ InitStore /\ InitProcess

NextIssueSeq ==
  \/ DeliverSeq(CreateInputs \cup GetInputs, MaxCalls)
  \/ Recycle
  \/ \E a \in 1..MaxAttempts : ConnectOk(a)
  \/ \E a \in 1..MaxAttempts : ConnectFail(a)
  \/ AfterConnect(1)
  \/ WithReconnect(1)
  \/ StoreFault(1)
  \/ CreateIssueProject(1) \/ CreateIssueSequence(1) \/ CreateIssueStatus(1)
  \/ CreateIssueAdd(1)
  \/ FindProject(1) \/ FindIssue(1)
  \/ GetIssueStatus(1) \/ GetIssueRefs(1)

SpecIssueSeq == InitIssueSeq /\ [][NextIssueSeq]_vars

(* ------------- specification: the sequence counter -------------------- *)
SequenceInputs ==
  {[tool |-> "create_issue", args |-> [NoArgs EXCEPT !.project = p, !.title = <<"T">>]] :
     p \in {<<"P">>, <<"Q">>}}

InitSequence == config = TRUE /\ faults = 0 /\ InitStore /\ InitConnected

NextSequence ==
  \/ \E r \in Reqs : Deliver(r, SequenceInputs)
  \/ \E r \in Reqs : Respond(r)
  \/ \E r \in Reqs : WithReconnect(r)
  \/ \E r \in Reqs : CreateIssueProject(r)
  \/ \E r \in Reqs : CreateIssueSequence(r)
  \/ \E r \in Reqs : CreateIssueStatus(r)
  \/ \E r \in Reqs : CreateIssueAdd(r)

SpecSequence == InitSequence /\ [][NextSequence]_vars

(* -------------------- specification: update_issue --------------------- *)
Optional(S) == {<<>>} \cup {<<x>> : x \in S}

UpdateInputs ==
  {[tool |-> "update_issue",
    args |-> [NoArgs EXCEPT !.issueId = i, !.title = t, !.priority = p, !.status = st,
                            !.description = d]] :
     i \in LabelIssueIds, t \in Optional({"T2", "N"}),
     p \in Optional({"HIGH", "urgent!!", "none"}), st \in Optional({"done", "nope"}),
     d \in Optional({"D"})}

InitUpdate == config = TRUE /\ faults = 1 /\ InitStore /\ InitConnected

NextUpdate ==
  \/ DeliverSeq(UpdateInputs, MaxResolveCalls)
  \/ Forget
  \/ \E a \in 1..MaxAttempts : ConnectOk(a)
  \/ AfterConnect(1)
  \/ WithReconnect(1)
  \/ StoreFault(1)
  \/ FindProject(1) \/ FindIssue(1)
  \/ UpdateStatuses(1) \/ UpdateDoc(1) \/ UploadMarkup(1) \/ UpdateDescriptionDoc(1)

SpecUpdate == InitUpdate /\ [][NextUpdate]_vars

(* --------------------- specification: list_issues --------------------- *)
ListInputs ==
  {[tool |-> "list_issues",
    args |-> [NoArgs EXCEPT !.project = <<"P">>, !.status = st, !.priority = p,
                            !.label = l, !.limit = n]] :
     st \in Optional({"done", "TODO"}), p \in Optional({"HIGH", "urgent!!"}),
     l \in {"", "bug", "ux"}, n \in Optional({1, 2})}
  \cup {[tool |-> "list_issues", args |-> [NoArgs EXCEPT !.project = p]] :
          p \in {<<"p">>, <<"socket">>}}

ListSetupInputs ==
  {[tool |-> "add_label", args |-> [NoArgs EXCEPT !.issueId = i, !.label = "bug"]] :
     i \in LabelIssueIds}
  \cup {[tool |-> "update_issue", args |-> [NoArgs EXCEPT !.issueId = i, !.status = <<st>>]] :
          i \in LabelIssueIds, st \in {"done", "TODO"}}

InitList == config = TRUE /\ faults = 1 /\ InitStore /\ InitConnected

NextList ==
  \/ DeliverSeq(ListInputs \cup ListSetupInputs, MaxListCalls)
  \/ Forget
  \/ \E a \in 1..MaxAttempts : ConnectOk(a)
  \/ AfterConnect(1)
  \/ WithReconnect(1)
  \/ StoreFault(1)
  \/ FindProject(1) \/ FindIssue(1)
  \/ FindTag(1) \/ FindRef(1) \/ AddRef(1)
  \/ UpdateStatuses(1) \/ UpdateDoc(1)
  \/ ListIssuesProject(1) \/ ListIssuesFind(1) \/ ListIssuesStatuses(1)
  \/ ListIssuesTags(1) \/ ListIssuesRefs(1)

SpecList == InitList /\ [][NextList]_vars

(* ---------------------- specification: every tool --------------------- *)
\* calls that create nothing
AllReadInputs ==
  {[tool |-> t, args |-> NoArgs] : t \in {"list_projects", "list_labels", "frobnicate"}}
  \cup {[tool |-> "get_project", args |-> [NoArgs EXCEPT !.project = p]] :
          p \in {<<"p">>, <<"9">>}}
  \cup {[tool |-> "list_issues", args |-> [NoArgs EXCEPT !.project = <<"P">>, !.label = "bug"]]}
  \cup {[tool |-> "get_issue", args |-> [NoArgs EXCEPT !.issueId = i]] :
          i \in {<<"P", "-", "1">>, <<"P">>}}
  \cup {[tool |-> "update_issue",
         args |-> [NoArgs EXCEPT !.issueId = <<"P", "-", "1">>, !.status = <<"done">>,
                                 !.description = <<"D">>]]}
  \cup {[tool |-> "remove_label",
         args |-> [NoArgs EXCEPT !.issueId = <<"P", "-", "1">>, !.label = "bug"]]}
  \cup {[tool |-> t, args |-> [NoArgs EXCEPT !.issueId = <<"P", "-", "1">>,
                                             !.otherId = <<"P", "-", "2">>]] : t \in TwoIdTools}

\* calls that create documents, delivered while the model's store has room for
\* what one call can create (a retried create_issue creates two issues)
AllInputs ==
  AllReadInputs
  \cup (IF Len(issues) + 2 <= MaxIssues /\ nextRef + 1 <= MaxRefs
           /\ Len(tagElements) + 1 <= MaxTags
        THEN {[tool |-> "create_issue",
               args |-> [NoArgs EXCEPT !.project = <<"P">>, !.title = <<"T">>,
                                       !.labels = <<"ux">>]]}
        ELSE {})
  \cup (IF nextRef <= MaxRefs
        THEN {[tool |-> "add_label",
               args |-> [NoArgs EXCEPT !.issueId = <<"P", "-", "2">>, !.label = "bug"]]}
        ELSE {})
  \cup (IF Len(tagElements) + 1 <= MaxTags
        THEN {[tool |-> "create_label", args |-> [NoArgs EXCEPT !.label = l]] :
                l \in LabelTitles}
        ELSE {})

\* the same workspace after issue P-1 got a description and the label "bug"
InitStoreDescribed ==
  /\ projects = [p \in ProjectIds |->
                   IF p = "pP" THEN [identifier |-> <<"P">>, sequence |-> 2]
                   ELSE [identifier |-> <<"Q">>, sequence |-> 0]]
  /\ issues = << [NewIssueDoc(1, "pP", 1, "T1", "", "sTodo", 0, 3) EXCEPT !.description = "D0"],
                 NewIssueDoc(2, "pP", 2, "T2", "", "sDone", 2, 2) >>
  /\ tagElements = << [id |-> 1, title |-> "bug", color |-> DefaultColor] >>
  /\ tagRefs = << [id |-> 1, attachedTo |-> 1, tag |-> 1, title |-> "bug",
                   color |-> DefaultColor] >>
  /\ nextRef = 2
  /\ statuses = StatusDocs

InitAll == config = TRUE /\ faults = MaxFaults /\ InitStoreDescribed /\ InitProcess

NextAll ==
  \/ DeliverSeq(AllInputs, MaxResolveCalls)
  \/ Forget
  \/ \E a \in 1..MaxAttempts : ConnectOk(a)
  \/ \E a \in 1..MaxAttempts : ConnectFail(a)
  \/ AfterConnect(1)
  \/ WithReconnect(1)
  \/ StoreFault(1)
  \/ ListProjects(1) \/ ListProjectsIssues(1) \/ GetProject(1) \/ GetProjectIssues(1)
  \/ ListIssuesProject(1) \/ ListIssuesFind(1) \/ ListIssuesStatuses(1)
  \/ ListIssuesTags(1) \/ ListIssuesRefs(1)
  \/ FindProject(1) \/ FindIssue(1) \/ FindProject2(1) \/ FindIssue2(1)
  \/ GetIssueStatus(1) \/ GetIssueRefs(1) \/ GetIssueMarkup(1)
  \/ CreateIssueProject(1) \/ CreateIssueSequence(1) \/ CreateIssueStatus(1)
  \/ CreateIssueAdd(1)
  \/ UpdateStatuses(1) \/ UpdateDoc(1) \/ UploadMarkup(1) \/ UpdateDescriptionDoc(1)
  \/ FindTag(1) \/ CreateTag(1) \/ FindRef(1) \/ AddRef(1)
  \/ FindRefs(1) \/ RemoveRef(1)
  \/ ListLabels(1)
  \/ CreateLabelFind(1) \/ CreateLabelProjects(1) \/ CreateLabelCreate(1)
  \/ AddRelation(1) \/ AddBlockedBy(1) \/ SetParent(1)

\* every pending store call and connect completes or fails, and the handler's
\* continuations run
\* set_parent calls delivered one after another, resolving both ids, where one
\* store call may fail
ParentInputs ==
  {[tool |-> "set_parent", args |-> [NoArgs EXCEPT !.issueId = i, !.otherId = j]] :
     i \in LabelIssueIds, j \in LabelIssueIds \cup { <<"P", "-", "9">> }}

InitParent == config = TRUE /\ faults = 1 /\ InitStore /\ InitConnected

NextParent ==
  \/ DeliverSeq(ParentInputs, MaxCalls)
  \/ Recycle
  \/ \E a \in 1..MaxAttempts : ConnectOk(a)
  \/ AfterConnect(1)
  \/ WithReconnect(1)
  \/ StoreFault(1)
  \/ FindProject(1) \/ FindIssue(1) \/ FindProject2(1) \/ FindIssue2(1)
  \/ SetParent(1)

SpecParent == InitParent /\ [][NextParent]_vars

\* add_relation and add_blocked_by calls delivered one after another, where one
\* store call may fail
InitRelSeq == config = TRUE /\ faults = 1 /\ InitStore /\ InitConnected

NextRelSeq ==
  \/ DeliverSeq(RelInputs, MaxCalls)
  \/ Recycle
  \/ \E a \in 1..MaxAttempts : ConnectOk(a)
  \/ AfterConnect(1)
  \/ WithReconnect(1)
  \/ StoreFault(1)
  \/ FindProject(1) \/ FindIssue(1) \/ FindProject2(1) \/ FindIssue2(1)
  \/ AddRelation(1) \/ AddBlockedBy(1)

SpecRelSeq == InitRelSeq /\ [][NextRelSeq]_vars

\* add_label and remove_label calls delivered one after another on a workspace
\* where P-1 carries the label "bug", where one store call may fail
UnlabelInputs ==
  AddLabelInputs
  \cup {[tool |-> "remove_label", args |-> [NoArgs EXCEPT !.issueId = i, !.label = l]] :
          i \in LabelIssueIds, l \in {"BUG", "ux"}}

InitUnlabel == config = TRUE /\ faults = 1 /\ InitStoreDescribed /\ InitConnected

NextUnlabel ==
  \/ DeliverSeq(UnlabelInputs, MaxCalls)
  \/ Recycle
  \/ \E a \in 1..MaxAttempts : ConnectOk(a)
  \/ AfterConnect(1)
  \/ WithReconnect(1)
  \/ StoreFault(1)
  \/ FindProject(1) \/ FindIssue(1)
  \/ FindTag(1) \/ CreateTag(1) \/ FindRef(1) \/ AddRef(1)
  \/ FindRefs(1) \/ RemoveRef(1)

SpecUnlabel == InitUnlabel /\ [][NextUnlabel]_vars

\* one create_issue call at a time on project P, with or without a label and a
\* status name, where one store call may fail
CreateLabelledInputs ==
  {[tool |-> "create_issue",
    args |-> [NoArgs EXCEPT !.project = <<"P">>, !.title = <<"T">>, !.labels = ls,
                            !.status = st]] :
     ls \in {<<>>, <<"bug">>, <<"ux">>}, st \in Optional({"Done", "TODO", "nope"})}

InitCreate == config = TRUE /\ faults = 1 /\ InitStore /\ InitConnected

NextCreate ==
  \/ DeliverSeq(CreateLabelledInputs, MaxResolveCalls)
  \/ Forget
  \/ \E a \in 1..MaxAttempts : ConnectOk(a)
  \/ AfterConnect(1)
  \/ WithReconnect(1)
  \/ StoreFault(1)
  \/ CreateIssueProject(1) \/ CreateIssueSequence(1) \/ CreateIssueStatus(1)
  \/ CreateIssueAdd(1)
  \/ FindTag(1) \/ CreateTag(1) \/ FindRef(1) \/ AddRef(1)

SpecCreate == InitCreate /\ [][NextCreate]_vars

\* the five read operations, each after at most one writing call (a label
\* attached, a description written), where the connection attempt and one store
\* call may fail
ReadInputs ==
  {[tool |-> t, args |-> NoArgs] : t \in {"list_projects", "list_labels"}}
  \cup {[tool |-> "get_project", args |-> [NoArgs EXCEPT !.project = p]] :
          p \in {<<"p">>, <<"9">>}}
  \cup {[tool |-> "list_issues",
         args |-> [NoArgs EXCEPT !.project = <<"P">>, !.label = l, !.status = st]] :
          l \in {"", "bug"}, st \in Optional({"TODO"})}
  \cup {[tool |-> "get_issue", args |-> [NoArgs EXCEPT !.issueId = i]] :
          i \in {<<"P", "-", "1">>, <<"P", "-", "3">>, <<"P">>}}

WriteInputs ==
  {[tool |-> "add_label",
    args |-> [NoArgs EXCEPT !.issueId = <<"P", "-", "1">>, !.label = "bug"]],
   [tool |-> "update_issue",
    args |-> [NoArgs EXCEPT !.issueId = <<"P", "-", "1">>, !.description = <<"D">>]]}

InitRead == config = TRUE /\ faults = 1 /\ InitStore /\ InitProcess

NextRead ==
  \/ DeliverSeq(ReadInputs \cup WriteInputs, MaxListCalls)
  \/ Recycle
  \/ \E a \in 1..MaxAttempts : ConnectOk(a)
  \/ \E a \in 1..MaxAttempts : ConnectFail(a)
  \/ AfterConnect(1)
  \/ WithReconnect(1)
  \/ StoreFault(1)
  \/ ListProjects(1) \/ ListProjectsIssues(1) \/ GetProject(1) \/ GetProjectIssues(1)
  \/ ListIssuesProject(1) \/ ListIssuesFind(1) \/ ListIssuesStatuses(1)
  \/ ListIssuesTags(1) \/ ListIssuesRefs(1)
  \/ FindProject(1) \/ FindIssue(1)
  \/ GetIssueStatus(1) \/ GetIssueRefs(1) \/ GetIssueMarkup(1)
  \/ ListLabels(1)
  \/ FindTag(1) \/ FindRef(1) \/ AddRef(1)
  \/ UploadMarkup(1) \/ UpdateDescriptionDoc(1)

SpecRead == InitRead /\ [][NextRead]_vars

SpecAll == InitAll /\ [][NextAll]_vars /\ WF_vars(NextAll)

(* ------------------------------- claims ------------------------------- *)
\* C1: at most one connection attempt to the store is in flight at any time
C1_SingleFlight == Cardinality(Pending) <= 1

\* C2: when a connection attempt fails, the caller that started it and every
\* caller awaiting it receive the error, and after getClient() has handled the
\* failure the cached handle is empty and no attempt is recorded
C2_FailedAttempt ==
  [][\A r \in Reqs :
       (/\ req[r].pc \in {"connecting", "awaitConn"}
        /\ attempts[req[r].wait].state = "rejected"
        /\ req'[r].pc = "settled")
       => /\ req'[r].outs[Len(req'[r].outs)] = attempts[req[r].wait].err
          /\ (req[r].pc = "connecting" => cachedClient' = 0 /\ connectionPromise' = 0)]_vars

\* the classification the specification gives: a marker of a closed, reset or
\* refused socket in the message, or the transport's reset error kind
C3_ConnectionLevel(o) ==
  \/ o.code = "ECONNRESET"
  \/ \E i \in 1..Len(o.msg) :
       o.msg[i] \in {"ConnectionClosed", "connection", "ECONNREFUSED", "socket"}

\* C3: withReconnect executes the operation once when the first execution
\* succeeds or fails with a non-connection error (without clearing the
\* connection), twice when it fails with a connection-level error (clearing the
\* connection in between), never a third time, and ends with the outcome of
\* the last execution
C3_OnceOrTwice ==
  \A r \in Reqs :
    /\ Len(req[r].outs) <= 2
    /\ req[r].execs <= 2
    /\ req[r].pc = "done" =>
         LET o1 == req[r].outs[1]
             n  == IF ~o1.ok /\ C3_ConnectionLevel(o1) THEN 2 ELSE 1
         IN /\ Len(req[r].outs) = n
            /\ req[r].execs = n
            /\ req[r].clears = n - 1
            /\ req[r].result = req[r].outs[n]

C3_Witness ==
  \E r \in Reqs :
    /\ req[r].pc = "done" /\ Len(req[r].outs) = 2 /\ ~req[r].result.ok
    /\ req[r].tool = "list_labels"

\* C4: a single request whose first execution fails with a connection reset
\* and whose retry succeeds ends with the retry's result and leaves one fresh
\* handle cached (made by a connect started after the failure) and no attempt
\* in flight
C4_Single(r) ==
  /\ \A s \in Reqs \ {r} : req[s].pc = "idle"
  /\ req[r].pc = "done"
  /\ Len(req[r].outs) = 2
  /\ req[r].outs[1] = ErrReset
  /\ req[r].outs[2].ok

C4_Reconnect ==
  \A r \in Reqs :
    C4_Single(r) =>
      /\ req[r].result = req[r].outs[2]
      /\ cachedClient # 0
      /\ cachedClient > req[r].prevClient
      /\ cachedClient = Len(attempts)
      /\ attempts[cachedClient].state = "resolved"
      /\ req[r].client = cachedClient
      /\ connectionPromise = 0
      /\ Pending = {}

C4_Witness == \E r \in Reqs : C4_Single(r) /\ req[r].prevClient # 0

\* C5 as claimed: without the configuration every tool call fails with the
\* configuration error
C5_EveryCall ==
  \A r \in Reqs : req[r].pc = "done" => req[r].result = ConfigError

\* C5: without the configuration every call of a defined tool fails with the
\* configuration error after one execution, connect() is never invoked and
\* the cached handle stays empty
C5_ConfigFatal ==
  /\ cachedClient = 0
  /\ \A a \in 1..Len(attempts) : ~attempts[a].network /\ attempts[a].state = "rejected"
  /\ \A r \in Reqs :
       (req[r].pc = "done" /\ req[r].tool \in ToolNames) =>
         /\ req[r].result = ConfigError
         /\ Len(req[r].outs) = 1
         /\ req[r].clears = 0

C5_Witness ==
  \E r, s \in Reqs :
    /\ r # s
    /\ req[r].pc = "done" /\ req[r].tool = "get_issue" /\ req[r].result = ConfigError
    /\ req[s].pc = "done" /\ req[s].tool = "create_issue" /\ req[s].result = ConfigError

\* C6 as claimed: a composite id that does not match <key>-<number>, in
\* either argument, makes the call fail with the invalid-format error before
\* any project or issue lookup is issued
C6_AnyIdFailsFirst ==
  \A r \in Reqs :
    (/\ req[r].pc = "done"
     /\ req[r].tool \in IdTools
     /\ \/ ~IdMatch(req[r].args.issueId)
        \/ req[r].tool \in TwoIdTools /\ ~IdMatch(req[r].args.otherId)
     /\ req[r].result \notin ConnectFaults \cup StoreFaults)
    => IsInvalidFormat(req[r].result) /\ req[r].lookups = 0

\* the pattern <alnum key>-<decimal number>, stated on the tokens
C6_WellFormed(id) ==
  \E k \in 2..(Len(id) - 1) :
    /\ id[k] = "-"
    /\ \A j \in 1..Len(id) : j # k => id[j] # "-"
    /\ \A j \in (k + 1)..Len(id) : id[j] \in {"0", "1", "2", "3", "9"}

\* C6: with a store handle obtained, a malformed issueId (the first or only
\* id) fails with the invalid-format error with no lookup issued; a malformed
\* second id is tested only after the first issue was looked up, so the call
\* fails with invalid-format or, when the first issue is absent, not-found; in
\* both cases the call fails and writes nothing
C6_InvalidFormat ==
  \A r \in Reqs :
    (req[r].pc = "done" /\ req[r].tool \in IdTools) =>
      LET q == req[r]
          env == q.result \in ConnectFaults \cup StoreFaults
      IN /\ ~C6_WellFormed(q.args.issueId) =>
              /\ q.lookups = 0 /\ q.writes = 0
              /\ ~q.result.ok
              /\ ~env => q.result = InvalidFormat(q.tool, q.args.issueId)
         /\ (q.tool \in TwoIdTools /\ C6_WellFormed(q.args.issueId)
               /\ ~C6_WellFormed(q.args.otherId)) =>
              /\ q.writes = 0
              /\ ~q.result.ok
              /\ ~env => \/ q.result = InvalidFormatLong(q.args.otherId) /\ q.lookups >= 2
                         \/ IsNotFound(q.result) /\ q.lookups >= 1

C6_Witness ==
  /\ req[1].pc = "done" /\ req[1].tool = "add_relation"
  /\ req[1].args.issueId = <<"P", "-", "1">> /\ req[1].args.otherId = <<"P">>
  /\ IsInvalidFormat(req[1].result) /\ req[1].lookups = 2

\* the issue a well-formed composite id names, 0 for none
C7_IssueOf(id) ==
  FindIssueDoc(FindProjectDoc(toUpperCase(IdKey(id))), parseInt(IdNum(id))).id

\* the attachments of the label titled l on issue i, in a list of attachments
C7_Attachments(refs, i, l) ==
  {k \in 1..Len(refs) : refs[k].attachedTo = i /\ refs[k].title = l}

\* C7: of two successful add_label calls in sequence with the same issue and
\* label title, the first reports the label added when it was not attached, the
\* second reports "already attached" and leaves the store as it found it, and
\* the issue then carries exactly one attachment of the label
C7_AddLabelTwice ==
  (req[1].pc = "done" /\ req[1].tool = "add_label" /\ req[1].result.ok) =>
    LET q == req[1]
        i == C7_IssueOf(q.args.issueId)
    IN /\ C7_Attachments(snap[4], i, q.args.label) = {} =>
            /\ q.result.val.message = "added"
            /\ Cardinality(C7_Attachments(tagRefs, i, q.args.label)) = 1
       /\ (last.tool = "add_label" /\ last.args = q.args /\ last.result.ok) =>
            /\ q.result.val.message = "already attached"
            /\ store = snap
            /\ Cardinality(C7_Attachments(tagRefs, i, q.args.label)) = 1

C7_Witness ==
  /\ req[1].pc = "done" /\ req[1].tool = "add_label" /\ req[1].result.ok
  /\ last.tool = "add_label" /\ last.args = req[1].args /\ last.result.ok
  /\ last.result.val.message = "added"
  /\ req[1].result.val.message = "already attached"
  /\ req[1].args.label = "ux"

\* C8: no issue has two attachments referencing the same label, whatever the
\* interleaving of add_label and create_issue requests
C8_OneAttachment ==
  \A i, j \in 1..Len(tagRefs) :
    (tagRefs[i].attachedTo = tagRefs[j].attachedTo /\ tagRefs[i].tag = tagRefs[j].tag)
      => i = j

\* C9: no two label definitions share a title, whatever the sequence or
\* interleaving of create_label, add_label and create_issue requests
C9_UniqueTitles ==
  \A i, j \in 1..Len(tagElements) :
    tagElements[i].title = tagElements[j].title => i = j

\* the list holds no reference twice
C10_NoDuplicate(list) ==
  \A i, j \in 1..Len(list) : list[i].id = list[j].id => i = j

\* C10: under any sequence or interleaving of add_relation and add_blocked_by
\* requests the relations list and the blockedBy list of every issue hold each
\* reference at most once, and a call that finds its edge present in the list
\* reports so and writes nothing
C10_EdgesOnce ==
  /\ \A i \in 1..Len(issues) :
       C10_NoDuplicate(issues[i].relations) /\ C10_NoDuplicate(issues[i].blockedBy)
  /\ \A r \in Reqs :
       (req[r].pc = "done" /\ req[r].result.ok) =>
         LET q == req[r]
             list == IF q.tool = "add_relation" THEN q.loc.issue.relations
                     ELSE q.loc.issue.blockedBy
         IN IF \E k \in 1..Len(list) : list[k].id = q.loc.issue2.id
            THEN /\ q.writes = 0
                 /\ q.result.val.message \in {"Issues are already related",
                                              "is already blocked by"}
            ELSE /\ q.writes = 1
                 /\ q.result.val.message \in {"Added relation", "Added dependency"}

C10_Witness ==
  /\ \A r \in Reqs : req[r].pc = "done" /\ req[r].tool = "add_relation"
                     /\ req[r].args.issueId = <<"P", "-", "1">>
                     /\ req[r].args.otherId = <<"P", "-", "2">>
  /\ req[1].result.val.message = "Added relation"
  /\ req[2].result.val.message = "Issues are already related"
  /\ Len(issues[1].relations) = 1

\* C11: no two issues of one project have the same number, also when
\* create_issue requests for the project interleave
C11_UniqueNumbers ==
  \A i, j \in 1..Len(issues) :
    (issues[i].space = issues[j].space /\ issues[i].number = issues[j].number) => i = j

\* C12: a create_issue call that runs with no other call in flight gives its
\* issue the number sequence+1 for the project's sequence at the start of the
\* call, leaves the sequence equal to that number, and the number is larger
\* than that of every issue created in the project before
C12_NextNumber ==
  (req[1].pc = "done" /\ req[1].tool = "create_issue" /\ req[1].result.ok) =>
    LET q == req[1]
        p == FindProjectDoc(toUpperCase(q.args.project))
        n == snap[1][p].sequence + 1
        i == q.result.val.internalId
    IN /\ issues[i].space = p
       /\ issues[i].number = n
       /\ projects[p].sequence = n
       /\ \A j \in 1..Len(issues) :
            (j # i /\ issues[j].space = p) => issues[j].number < n

\* C13: no step lowers a project's sequence counter, and after every step the
\* counter is at least the largest issue number of the project
C13_Monotone ==
  [][\A p \in ProjectIds :
       /\ projects'[p].sequence >= projects[p].sequence
       /\ \A i \in 1..Len(issues') :
            issues'[i].space = p => issues'[i].number <= projects'[p].sequence]_vars

\* C14: get_issue called with the id that a create_issue without status and
\* priority just returned gives the title passed to create_issue, the status
\* "Todo" and the name of priority 0
C14_RoundTrip ==
  (/\ req[1].pc = "done" /\ req[1].tool = "get_issue" /\ req[1].result.ok
   /\ last.tool = "create_issue" /\ last.result.ok
   /\ last.args.status = <<>> /\ last.args.priority = <<>>
   /\ req[1].args.issueId = last.result.val.id) =>
    /\ req[1].result.val.title = last.args.title[1]
    /\ req[1].result.val.status = "Todo"
    /\ req[1].result.val.priority = "No Priority"
    /\ req[1].result.val.internalId = last.result.val.internalId

C14_Witness ==
  /\ req[1].pc = "done" /\ req[1].tool = "get_issue" /\ req[1].result.ok
  /\ last.tool = "create_issue" /\ last.result.ok
  /\ last.args.project = <<"p">> /\ last.args.title = <<"U">>
  /\ req[1].args.issueId = last.result.val.id
  /\ req[1].result.val.title = "U"

\* the integer of a priority name, unrecognized names giving 0
C15_Priority(name) ==
  CASE name \in {"urgent", "Urgent", "URGENT"} -> 1
    [] name \in {"high", "High", "HIGH"} -> 2
    [] name \in {"medium", "Medium", "MEDIUM"} -> 3
    [] name \in {"low", "Low", "LOW"} -> 4
    [] OTHER -> 0

\* C15: a successful update_issue that was given a priority name leaves the
\* issue with the integer of that name, 0 for a name that is not recognized
C15_UpdateMapsToNone ==
  (/\ req[1].pc = "done" /\ req[1].tool = "update_issue" /\ req[1].result.ok
   /\ req[1].args.priority # <<>>) =>
    issues[C7_IssueOf(req[1].args.issueId)].priority = C15_Priority(req[1].args.priority[1])

\* C16: every issue that list_issues returns under a label filter carries an
\* attachment of a label definition with that title; with no such definition
\* the result is empty
C16_LabelFilter ==
  (/\ req[1].pc = "done" /\ req[1].tool = "list_issues" /\ req[1].result.ok
   /\ req[1].args.label # "") =>
    \A k \in 1..Len(req[1].result.val) :
      \E a \in 1..Len(tagRefs), t \in 1..Len(tagElements) :
        /\ tagRefs[a].attachedTo = C7_IssueOf(req[1].result.val[k].id)
        /\ tagRefs[a].tag = tagElements[t].id
        /\ tagElements[t].title = req[1].args.label

\* the issues that the query of list_issues fetches: those of the project with
\* the priority asked for, fewer than limit of which were modified later
C17_Fetched(q) ==
  LET p == FindProjectDoc(toUpperCase(q.args.project))
      match(i) == /\ issues[i].space = p
                  /\ q.args.priority # <<>> =>
                       issues[i].priority = C15_Priority(q.args.priority[1])
      limit == IF q.args.limit # <<>> THEN q.args.limit[1] ELSE 50
  IN {i \in 1..Len(issues) :
        /\ match(i)
        /\ Cardinality({j \in 1..Len(issues) :
                          match(j) /\ issues[j].modifiedOn > issues[i].modifiedOn}) < limit}

\* the status name of issue i equals the filter, case-insensitively
C17_StatusIs(i, name) ==
  \E k \in 1..Len(statuses) :
    /\ statuses[k].id = issues[i].status
    /\ toLowerCaseName(statuses[k].name) = toLowerCaseName(name)

\* C17: without a label filter, list_issues returns exactly the fetched issues
\* (the first `limit` of the project, most recently modified first, with the
\* priority asked for) whose status matches the status filter, in fetch order;
\* so never more than `limit` entries
C17_LimitThenStatus ==
  (/\ req[1].pc = "done" /\ req[1].tool = "list_issues" /\ req[1].result.ok
   /\ req[1].args.label = "") =>
    LET q    == req[1]
        rows == q.result.val
        want == {i \in C17_Fetched(q) :
                   q.args.status # <<>> => C17_StatusIs(i, q.args.status[1])}
    IN /\ {C7_IssueOf(rows[k].id) : k \in 1..Len(rows)} = want
       /\ Len(rows) = Cardinality(want)
       /\ q.args.limit # <<>> => Len(rows) <= q.args.limit[1]
       /\ \A k \in 1..(Len(rows) - 1) :
            issues[C7_IssueOf(rows[k].id)].modifiedOn
              > issues[C7_IssueOf(rows[k + 1].id)].modifiedOn

\* limit 1, two issues, only the older one has the status asked for
C17_Witness ==
  /\ req[1].pc = "done" /\ req[1].tool = "list_issues" /\ req[1].result.ok
  /\ req[1].args.label = "" /\ req[1].args.limit = <<1>>
  /\ req[1].args.status = <<"TODO">> /\ req[1].args.priority = <<>>
  /\ req[1].result.val = <<>>
  /\ \E i \in 1..Len(issues) : issues[i].space = "pP" /\ C17_StatusIs(i, "TODO")

\* the value of field f of an issue document
C18_Field(doc, f) ==
  CASE f = "title" -> <<doc.title>>
    [] f = "priority" -> <<doc.priority>>
    [] f = "status" -> <<doc.status>>
    [] f = "description" -> <<doc.description>>

\* the value that the call was asked to store in field f, <<>> when the
\* argument names no value (an unrecognized priority or status name)
C18_Asked(args, f) ==
  CASE f = "title" -> args.title
    [] f = "description" -> args.description
    [] f = "priority" ->
         IF args.priority # <<>>
            /\ toLowerCaseName(args.priority[1]) \in {"urgent", "high", "medium", "low", "none"}
         THEN <<C15_Priority(args.priority[1])>> ELSE <<>>
    [] f = "status" ->
         IF args.status # <<>> /\ FindStatusId(args.status[1]) # ""
         THEN <<FindStatusId(args.status[1])>> ELSE <<>>

\* C18: a field is in the `updated` list of a successful update_issue only if
\* the call wrote a new value for it, the value its argument names; a field
\* that is not listed keeps its stored value
C18_UpdatedIsChanged ==
  (req[1].pc = "done" /\ req[1].tool = "update_issue" /\ req[1].result.ok) =>
    LET i == C7_IssueOf(req[1].args.issueId)
        listed == {req[1].result.val.updated[k] : k \in 1..Len(req[1].result.val.updated)}
    IN \A f \in {"title", "priority", "status", "description"} :
         IF f \in listed
         THEN /\ C18_Asked(req[1].args, f) # <<>>
              /\ C18_Field(issues[i], f) = C18_Asked(req[1].args, f)
         ELSE C18_Field(issues[i], f) = C18_Field(snap[2][i], f)

\* what the call handler answered for a finished call: the outcome of the last
\* execution of the operation, a value or a failure with its message
C19_Response(q) ==
  /\ Len(q.outs) \in {1, 2}
  /\ q.result = q.outs[Len(q.outs)]
  /\ q.result.ok \/ q.result.msg # <<>>
  /\ q.tool \notin ToolNames => q.result = UnknownTool(q.tool) /\ Len(q.outs) = 1

\* C19: every tool call that is delivered ends with a response, the operation's
\* result or a failure carrying the error message, whatever the tool name and
\* the failures of the store; an unknown tool name gives such a failure
C19_AlwaysAnswers ==
  /\ [](\A r \in Reqs : req[r].pc = "done" => C19_Response(req[r]))
  /\ \A r \in Reqs : (req[r].pc # "idle") ~> (req[r].pc = "done")

C19_Witness ==
  /\ req[1].pc = "done" /\ req[1].tool = "update_issue"
  /\ Len(req[1].outs) = 2 /\ ~req[1].result.ok
  /\ faults = 0

\* the issue document without the store's modification stamp
C20_Fields(doc) == [doc EXCEPT !.modifiedOn = 0]

C20_SetParentDone ==
  req[1].pc = "done" /\ req[1].tool = "set_parent" /\ req[1].result.ok

\* C20: every issue has at most one parents entry and, when it has one, attachedTo
\* is that entry's parent; a set_parent that succeeded leaves the child with exactly
\* the one entry of the parent asked for, whatever entry it had before, leaves
\* every other issue and the rest of the store as they were, and, repeated with the
\* same arguments right after a successful one, leaves the issues as they were up
\* to the child's modification stamp.
C20_SingleParent ==
  /\ \A i \in 1..Len(issues) :
       /\ Len(issues[i].parents) <= 1
       /\ Len(issues[i].parents) = 1 => issues[i].attachedTo = issues[i].parents[1].parentId
  /\ C20_SetParentDone =>
       LET child  == C7_IssueOf(req[1].args.issueId)
           parent == C7_IssueOf(req[1].args.otherId)
       IN /\ Len(issues[child].parents) = 1
          /\ issues[child].parents[1].parentId = parent
          /\ issues[child].parents[1].parentTitle = snap[2][parent].title
          /\ issues[child].attachedTo = parent
          /\ [issues[child] EXCEPT !.parents = <<>>, !.attachedTo = 0, !.modifiedOn = 0]
               = [snap[2][child] EXCEPT !.parents = <<>>, !.attachedTo = 0, !.modifiedOn = 0]
          /\ \A i \in 1..Len(issues) : i # child => issues[i] = snap[2][i]
          /\ Len(issues) = Len(snap[2])
          /\ <<projects, tagElements, tagRefs, nextRef, statuses>>
               = <<snap[1], snap[3], snap[4], snap[5], snap[6]>>
          /\ (last.tool = "set_parent" /\ last.args = req[1].args /\ last.result.ok) =>
               [i \in 1..Len(issues) |-> C20_Fields(issues[i])]
                 = [i \in 1..Len(issues) |-> C20_Fields(snap[2][i])]

\* C20 witness: a set_parent succeeded on a child that had another parent before,
\* the parent is a different issue, and the call before it was a successful
\* set_parent too
C20_Witness ==
  /\ C20_SetParentDone
  /\ last.tool = "set_parent" /\ last.result.ok
  /\ LET child  == C7_IssueOf(req[1].args.issueId)
         parent == C7_IssueOf(req[1].args.otherId)
     IN /\ child # parent
        /\ Len(snap[2][child].parents) = 1
        /\ snap[2][child].parents[1].parentId # parent
        /\ Len(issues[child].parents) = 1

\* C20 second case reached: the same set_parent twice in a row, both successful
C20_WitnessTwice ==
  /\ C20_SetParentDone
  /\ last.tool = "set_parent" /\ last.args = req[1].args /\ last.result.ok

C21_Done(tool) == req[1].pc = "done" /\ req[1].tool = tool /\ req[1].result.ok

\* the list after the call: as before, with the edge to issue b at the end unless
\* it was there
C21_ListAfter(list, b) ==
  IF \E k \in 1..Len(list) : list[k].id = b THEN list ELSE Append(list, [id |-> b, class |-> "tracker:class:Issue"])

\* C21: a successful add_relation(A, B) changes only the relations list of A (and
\* the store's modification stamp of A), a successful add_blocked_by(A, B) only
\* the blockedBy list of A: the list gains the edge to B unless it had it, every
\* other field of A, every other issue (B with its two lists, when B is another
\* issue) and the rest of the store stay as they were at delivery.
C21_OnlyOwnList ==
  \A tool \in {"add_relation", "add_blocked_by"} :
    C21_Done(tool) =>
      LET a == C7_IssueOf(req[1].args.issueId)
          b == C7_IssueOf(req[1].args.otherId)
          before == snap[2][a]
      IN /\ Len(issues) = Len(snap[2])
         /\ \A i \in 1..Len(issues) : i # a => issues[i] = snap[2][i]
         /\ IF tool = "add_relation"
            THEN /\ issues[a].relations = C21_ListAfter(before.relations, b)
                 /\ issues[a].blockedBy = before.blockedBy
            ELSE /\ issues[a].blockedBy = C21_ListAfter(before.blockedBy, b)
                 /\ issues[a].relations = before.relations
         /\ [issues[a] EXCEPT !.relations = <<>>, !.blockedBy = <<>>, !.modifiedOn = 0]
              = [before EXCEPT !.relations = <<>>, !.blockedBy = <<>>, !.modifiedOn = 0]
         /\ <<projects, tagElements, tagRefs, nextRef, statuses>>
              = <<snap[1], snap[3], snap[4], snap[5], snap[6]>>

\* C21 witness: add_relation(P-1, P-2) added its edge and P-2's relations list
\* does not hold P-1
C21_Witness ==
  /\ C21_Done("add_relation")
  /\ req[1].args.issueId = <<"P", "-", "1">> /\ req[1].args.otherId = <<"P", "-", "2">>
  /\ req[1].writes = 1
  /\ \E k \in 1..Len(issues[1].relations) : issues[1].relations[k].id = 2
  /\ \A k \in 1..Len(issues[2].relations) : issues[2].relations[k].id # 1

\* a finished update_issue whose status argument names no defined status
C22_Unmatched ==
  /\ req[1].pc = "done" /\ req[1].tool = "update_issue"
  /\ req[1].args.status # <<>> /\ FindStatusId(req[1].args.status[1]) = ""

C22_Listed(f) ==
  \E k \in 1..Len(req[1].result.val.updated) : req[1].result.val.updated[k] = f

\* C22: update_issue with a status name that matches no defined status succeeds
\* when no store call failed; the issue keeps its status; "status" is not in the
\* returned updated list; a title, a description and a priority given with it are
\* listed and stored (the priority as the number of its name, when the name is a
\* priority name); and when no other field is given the store is left as it was
\* and no write was issued.
C22_StatusSkipped ==
  C22_Unmatched =>
    LET q == req[1]
        i == C7_IssueOf(q.args.issueId)
    IN /\ faults = 1 => q.result.ok
       /\ issues[i].status = snap[2][i].status
       /\ q.result.ok =>
            /\ ~C22_Listed("status")
            /\ q.args.title # <<>> =>
                 C22_Listed("title") /\ issues[i].title = q.args.title[1]
            /\ q.args.description # <<>> =>
                 C22_Listed("description") /\ issues[i].description = q.args.description[1]
            /\ q.args.priority # <<>> =>
                 /\ C22_Listed("priority")
                 /\ C18_Asked(q.args, "priority") # <<>> =>
                      <<issues[i].priority>> = C18_Asked(q.args, "priority")
       /\ (q.args.title = <<>> /\ q.args.priority = <<>> /\ q.args.description = <<>>) =>
            /\ store = snap
            /\ q.writes = 0
            /\ q.result.ok => q.result.val.updated = <<>>

\* C22 witness: the status name "nope" was skipped while the title given with it
\* was written
C22_Witness ==
  /\ C22_Unmatched /\ req[1].result.ok
  /\ req[1].args.title = <<"N">> /\ req[1].args.priority = <<>>
  /\ req[1].args.description = <<>>
  /\ issues[C7_IssueOf(req[1].args.issueId)].title = "N"
  /\ req[1].result.val.updated = <<"title">>

\* C22 second case reached: only the unmatched status was given, nothing written
C22_WitnessNoWrite ==
  /\ C22_Unmatched /\ req[1].result.ok
  /\ req[1].args.title = <<>> /\ req[1].args.priority = <<>>
  /\ req[1].args.description = <<>>
  /\ req[1].result.val.updated = <<>> /\ store = snap

C23_Done == req[1].pc = "done" /\ req[1].tool = "remove_label" /\ req[1].result.ok

\* the attachment is one of issue i with the title asked for, letter case aside
C23_Matches(t, i, label) ==
  t.attachedTo = i /\ toLowerCaseName(t.title) = toLowerCaseName(label)

C23_Without(refs, k) == [j \in 1..(Len(refs) - 1) |-> IF j < k THEN refs[j] ELSE refs[j + 1]]

\* C23: a successful remove_label(issue, title) answers "not found on issue" and
\* leaves the store as it was when the issue has no attachment with that title
\* (letter case aside), and otherwise answers "removed" with exactly one such
\* attachment of the issue deleted; every other attachment, the label definitions,
\* the issues and the projects are as they were at delivery.
C23_RemovesOne ==
  C23_Done =>
    LET i    == C7_IssueOf(req[1].args.issueId)
        refs == snap[4]
        hits == {k \in 1..Len(refs) : C23_Matches(refs[k], i, req[1].args.label)}
    IN /\ <<projects, issues, tagElements, nextRef, statuses>>
            = <<snap[1], snap[2], snap[3], snap[5], snap[6]>>
       /\ IF hits = {}
          THEN tagRefs = refs /\ req[1].result.val.message = "not found on issue"
          ELSE /\ \E k \in hits : tagRefs = C23_Without(refs, k)
               /\ req[1].result.val.message = "removed"

\* C23 witness: "BUG" removed the attachment "bug" of P-1 while P-2 keeps its own
\* "bug" and P-1 its "ux"
C23_Witness ==
  /\ C23_Done /\ req[1].args.issueId = <<"P", "-", "1">> /\ req[1].args.label = "BUG"
  /\ req[1].result.val.message = "removed"
  /\ Len(snap[4]) = 3 /\ Len(tagRefs) = 2
  /\ \E k \in 1..2 : tagRefs[k].attachedTo = 2 /\ tagRefs[k].title = "bug"
  /\ \E k \in 1..2 : tagRefs[k].attachedTo = 1 /\ tagRefs[k].title = "ux"

\* C24: from its delivery on, a create_issue request has added at most one issue
\* to the store, also when withReconnect ran the operation a second time
C24_AtMostOne ==
  (req[1].pc # "idle" /\ req[1].tool = "create_issue") =>
    Len(issues) <= Len(snap[2]) + 1

\* C25: while the answer of a successful add_relation (add_blocked_by) for the
\* edge A -> B stands, A's relations (blockedBy) list holds B's reference, under
\* any interleaving of the requests
C25_EdgesKept ==
  \A r \in Reqs :
    (req[r].pc = "done" /\ req[r].result.ok
       /\ req[r].tool \in {"add_relation", "add_blocked_by"}) =>
      LET a == C7_IssueOf(req[r].args.issueId)
          b == C7_IssueOf(req[r].args.otherId)
          list == IF req[r].tool = "add_relation" THEN issues[a].relations
                  ELSE issues[a].blockedBy
      IN \E k \in 1..Len(list) : list[k].id = b

\* C26: the status in the result of a successful create_issue is the name of the
\* status stored on the issue it reports, letter case aside
C26_ReportedStatus ==
  (req[1].pc = "done" /\ req[1].tool = "create_issue" /\ req[1].result.ok) =>
    toLowerCaseName(StatusNameOf(issues[req[1].result.val.internalId].status, ""))
      = toLowerCaseName(req[1].result.val.status)

C27_ReadTools == {"list_projects", "get_project", "list_issues", "get_issue", "list_labels"}

\* C27: from the delivery of a list_projects, get_project, list_issues, get_issue
\* or list_labels call until its answer, success or failure, the projects with
\* their sequence counters, the issues, the label definitions and the attachments
\* are what they were when the call was delivered
C27_ReadsKeepStore ==
  (req[1].pc # "idle" /\ req[1].tool \in C27_ReadTools) => store = snap

\* C27 witness: get_issue answered with the description that the call before it
\* wrote, and the store is as at delivery
C27_Witness ==
  /\ req[1].pc = "done" /\ req[1].tool = "get_issue" /\ req[1].result.ok
  /\ last.tool = "update_issue" /\ last.result.ok
  /\ issues[1].description = "D"
  /\ store = snap

\* C27 second case reached: a read operation failed on a store failure
C27_WitnessFailed ==
  /\ req[1].pc = "done" /\ req[1].tool \in C27_ReadTools /\ ~req[1].result.ok
  /\ faults = 0 /\ last.tool \in {"add_label", "update_issue"} /\ last.result.ok
  /\ store = snap
====
